---- MODULE Spec2Model ----
(***************************************************************************)
(* A model of the binary and ASCII-hex instrument decoders of cgsn-parsers *)
(* (cgsn_parsers/parsers): the DCL timestamp conversion, the Teledyne ADCP *)
(* PD0 decoder, the Nortek VEL3D decoder and its checksum, the WET Labs    *)
(* OPTAA (ac-s) decoder and the Microstrain MOPAK decoder, and of the      *)
(* ParameterNames tables the decoders of both packages are built on.       *)
(*                                                                         *)
(* Every decoder is modelled on the bytes of its input.  Input files are   *)
(* assembled from well-formed and damaged packets by the packet operators  *)
(* below; the decoders never see how a file was assembled, they read the   *)
(* bytes as the Python code does (struct.unpack, slicing, re.finditer).    *)
(* A Python exception that leaves parse_data is the control state          *)
(* "raised" together with the name of the exception.                       *)
(*                                                                         *)
(* Times are kept exact: a time is a pair <<seconds, fraction>> whose      *)
(* fraction counts milliseconds (DCL, OPTAA) or samples (VEL3D), and for   *)
(* MOPAK a triple <<seconds, milliseconds, ticks of 1/62500 s>>; the       *)
(* rounding of the IEEE doubles of the Python code is not modelled.        *)
(***************************************************************************)
EXTENDS Integers, Sequences, FiniteSets, TLC

VARIABLES
    \* common.dcl_to_epoch, called on its own
    time_string,      \* the argument: the digit groups of a DCL timestamp
    dcl_result,       \* what the call produced
    dcl_pc,           \* "call" before, "returned" or "raised" after
    \* parse_adcp.Parser
    adcp_raw,         \* self.raw: the lines of the file
    adcp_line,        \* the line parse_data's loop handles next (from 1)
    adcp_data,        \* self.data: the tables of the decoded ensembles
    adcp_pc,          \* "run", "done", or "raised" when an exception left
    adcp_exc,         \* the exception that left parse_data, or "none"
    \* the Nortek checksum (parse_vel3d / parse_velpt _calc_checksum) on its own
    ck_record,        \* the packet, its last two bytes the checksum
    ck_ok,            \* the outcome of the decoder's comparison
    ck_pc,            \* "built", "verified", "mutated", "reverified"
    \* parse_vel3d.Parser
    v3_raw,           \* self.raw: the bytes of the file
    v3_sample_rate,   \* self.sample_rate
    v3_data,          \* self.data: the system and velocity tables
    v3_system_marker, \* parse_velocity's list system_marker
    v3_velocity_marker, \* parse_velocity's list velocity_marker
    v3_loc,           \* parse_velocity's locals start, last, time and cnt
    v3_pc,            \* "scan", "system", "velocity", "done", "raised"
    v3_exc,           \* the exception that left parse_velocity, or "none"
    \* parse_optaa.Parser
    op_raw,           \* self.raw: the bytes of the file
    op_epts,          \* epts: the creation time read from the file's name
    op_data,          \* self.data: the table of the decoded packets
    op_packets,       \* packets: the matches of findall not yet handled
    op_loc,           \* parse_data's locals nwave and time0
    op_pc,            \* "first", "packets", "done", "raised"
    op_exc,           \* the exception that left parse_data, or "none"
    \* parse_mopak.Parser
    mo_raw,           \* self.raw: the bytes of the file
    mo_epts,          \* epts: the creation time read from the file's name
    mo_data,          \* self.data: the table of the decoded packets
    mo_record_marker, \* parse_data's list record_marker
    mo_pc,            \* "scan", "packets", "done", "raised"
    mo_exc,           \* the exception that left parse_data, or "none"
    \* _convert_bcd, the Nortek clock and the frame scanners, called on their own
    fn_name,          \* the function called
    fn_arg,           \* its argument
    fn_result,        \* what it returned
    fn_pc,            \* "call" before, "returned" after
    \* the parser modules of one Python process and their ParameterNames
    pn_parameters,    \* parsers/common.py: the class attribute ParameterNames.parameters
    pn_imported,      \* the parser modules imported so far
    pn_parsers,       \* the Parser objects made so far: module and self.data
    pn_heap,          \* the list objects create_dict made, by identity
    pn_pc,            \* "run", or "raised" when an exception ended the process
    pn_exc,           \* that exception, or "none"
    \* parse_velpt.Parser
    vp_raw,           \* self.raw: the bytes of the file
    vp_data,          \* self.data: the header, diagnostics and velocity tables
    vp_header_marker, \* parse_diagnostics' list header_marker
    vp_diagnostics_marker, \* parse_diagnostics' list diagnostics_marker
    vp_loc,           \* parse_diagnostics' locals start, last and cnt
    vp_pc,            \* "scan", "header", "diagnostics", "done", "raised"
    vp_exc,           \* the exception that left parse_diagnostics, or "none"
    \* parse_metbk.Parser
    mb_raw,           \* self.raw: the lines of the file
    mb_line,          \* the line parse_data's loop handles next (from 1)
    mb_data,          \* self.data: the table of the decoded lines
    mb_pc,            \* "run", "done", or "raised" when an exception left
    mb_exc            \* the exception that left parse_data, or "none"

dclvars == <<time_string, dcl_result, dcl_pc>>
adcpvars == <<adcp_raw, adcp_line, adcp_data, adcp_pc, adcp_exc>>
ckvars == <<ck_record, ck_ok, ck_pc>>
v3vars == <<v3_raw, v3_sample_rate, v3_data, v3_system_marker,
            v3_velocity_marker, v3_loc, v3_pc, v3_exc>>

opvars == <<op_raw, op_epts, op_data, op_packets, op_loc, op_pc, op_exc>>

movars == <<mo_raw, mo_epts, mo_data, mo_record_marker, mo_pc, mo_exc>>

fnvars == <<fn_name, fn_arg, fn_result, fn_pc>>

pnvars == <<pn_parameters, pn_imported, pn_parsers, pn_heap, pn_pc, pn_exc>>

vpvars == <<vp_raw, vp_data, vp_header_marker, vp_diagnostics_marker, vp_loc,
            vp_pc, vp_exc>>

mbvars == <<mb_raw, mb_line, mb_data, mb_pc, mb_exc>>

vars == <<dclvars, adcpvars, ckvars, v3vars, opvars, movars, fnvars, pnvars,
          vpvars, mbvars>>

\* What a step of one component leaves alone: the other components.
notDcl == <<adcpvars, ckvars, v3vars, opvars, movars, fnvars, pnvars, vpvars, mbvars>>
notAdcp == <<dclvars, ckvars, v3vars, opvars, movars, fnvars, pnvars, vpvars, mbvars>>
notCk == <<dclvars, adcpvars, v3vars, opvars, movars, fnvars, pnvars, vpvars, mbvars>>
notVel3d == <<dclvars, adcpvars, ckvars, opvars, movars, fnvars, pnvars, vpvars, mbvars>>
notOptaa == <<dclvars, adcpvars, ckvars, v3vars, movars, fnvars, pnvars, vpvars, mbvars>>
notMopak == <<dclvars, adcpvars, ckvars, v3vars, opvars, fnvars, pnvars, vpvars, mbvars>>
notFn == <<dclvars, adcpvars, ckvars, v3vars, opvars, movars, pnvars, vpvars, mbvars>>
notPn == <<dclvars, adcpvars, ckvars, v3vars, opvars, movars, fnvars, vpvars, mbvars>>
notVelpt == <<dclvars, adcpvars, ckvars, v3vars, opvars, movars, fnvars, pnvars, mbvars>>
notMetbk == <<dclvars, adcpvars, ckvars, v3vars, opvars, movars, fnvars, pnvars, vpvars>>

-----------------------------------------------------------------------------
(* Bytes and struct.unpack                                                 *)

Byte == 0..255

Min(a, b) == IF a < b THEN a ELSE b

\* Python's s[a:b] for 0 <= a, on a 0-based byte string held as a 1-based
\* sequence: the slice is cut at the end of s and never raises.
Slice(s, a, b) ==
    LET hi == Min(b, Len(s))
    IN  IF a >= hi THEN << >> ELSE SubSeq(s, a + 1, hi)

\* s[i] for a 0-based index i (the caller guards i < Len(s)).
At(s, i) == s[i + 1]

\* unpack('<H', b) and unpack('>H', b) of a two-byte string b.
UnpackLE16(b) == b[1] + 256 * b[2]
UnpackBE16(b) == 256 * b[1] + b[2]

\* struct.unpack('>I', b) for a value below 2^31, and its inverse.
UnpackBE32(b) == ((256 * b[1] + b[2]) * 256 + b[3]) * 256 + b[4]
PackBE32(v) == << (v \div 16777216) % 256, (v \div 65536) % 256,
                 (v \div 256) % 256, v % 256 >>

\* The two bytes struct.pack('<H', v) and struct.pack('>H', v) produce.
PackLE16(v) == << v % 256, (v \div 256) % 256 >>
PackBE16(v) == << (v \div 256) % 256, v % 256 >>

RECURSIVE SumRange(_, _, _)
\* s[lo] + ... + s[hi], summed by halves to keep the evaluation shallow.
SumRange(s, lo, hi) ==
    IF lo > hi THEN 0
    ELSE IF lo = hi THEN s[lo]
    ELSE LET mid == (lo + hi) \div 2
         IN  SumRange(s, lo, mid) + SumRange(s, mid + 1, hi)

\* The sum of ord(c) over the characters of a byte string.
SumBytes(s) == SumRange(s, 1, Len(s))

\* n zero bytes.
Zeros(n) == [i \in 1..n |-> 0]

RECURSIVE Concat(_)
\* ''.join(parts)
Concat(parts) == IF parts = << >> THEN << >> ELSE parts[1] \o Concat(Tail(parts))

\* s with the byte at 0-based index i replaced by v.
SetByte(s, i, v) == [s EXCEPT ![i + 1] = v]

-----------------------------------------------------------------------------
(* The civil calendar of datetime and calendar.timegm                      *)

IsLeap(y) == (y % 4 = 0) /\ ((y % 100 # 0) \/ (y % 400 = 0))

DaysInMonth(y, m) ==
    CASE m = 2 -> IF IsLeap(y) THEN 29 ELSE 28
      [] m \in {4, 6, 9, 11} -> 30
      [] OTHER -> 31

\* Days in the years before year y of the proleptic Gregorian calendar.
DaysBeforeYear(y) ==
    LET p == y - 1 IN p * 365 + (p \div 4) - (p \div 100) + (p \div 400)

RECURSIVE DaysBeforeMonth(_, _)
DaysBeforeMonth(y, m) ==
    IF m <= 1 THEN 0 ELSE DaysInMonth(y, m - 1) + DaysBeforeMonth(y, m - 1)

\* datetime.date(y, m, d).toordinal()
ToOrdinal(y, m, d) == DaysBeforeYear(y) + DaysBeforeMonth(y, m) + d

\* calendar.timegm of the time tuple of a valid civil time.
timegm(t) ==
    LET days == ToOrdinal(t.year, t.month, 1) - ToOrdinal(1970, 1, 1) + t.day - 1
    IN  ((days * 24 + t.hour) * 60 + t.minute) * 60 + t.second

\* The civil times datetime.datetime accepts.
ValidDatetime(t) ==
    /\ t.year \in 1..9999
    /\ t.month \in 1..12
    /\ t.day \in 1..DaysInMonth(t.year, t.month)
    /\ t.hour \in 0..23
    /\ t.minute \in 0..59
    /\ t.second \in 0..59

-----------------------------------------------------------------------------
(* cgsn_parsers/parsers/common.py: dcl_to_epoch                            *)

\* A DCL timestamp as the digit groups DCL_TIMESTAMP matches:
\* yyyy/mm/dd hh:mm:ss.fff, every group any digits of its width.
DclStamp(y, mo, d, h, mi, s, f) ==
    [year |-> y, month |-> mo, day |-> d, hour |-> h, minute |-> mi,
     second |-> s, msec |-> f]

\* datetime.datetime.strptime(time_string, '%Y/%m/%d %H:%M:%S.%f'): the
\* format accepts seconds up to 61, the datetime constructor only to 59;
\* either refusal is a ValueError.
strptime_ok(ts) == ValidDatetime(ts)

\* dcl_to_epoch without the 60 s added for a rewritten timestamp.
dcl_to_epoch_nobump(ts) ==
    LET fixed == IF ts.second = 60 THEN [ts EXCEPT !.second = 0, !.msec = 0] ELSE ts
    IN  IF strptime_ok(fixed)
        THEN [raised |-> "none", epts |-> <<timegm(fixed), fixed.msec>>]
        ELSE [raised |-> "ValueError", epts |-> <<0, 0>>]

\* dcl_to_epoch(time_string): a timestamp whose seconds read 60 is rewritten
\* to 00.000 and 60 s are added to the result; strptime's ValueError is not
\* caught.  The result is <<epoch seconds, milliseconds>>.
dcl_to_epoch(ts) ==
    LET sixty == ts.second = 60
        fixed == IF sixty THEN [ts EXCEPT !.second = 0, !.msec = 0] ELSE ts
        tplus == IF sixty THEN 60 ELSE 0
    IN  IF strptime_ok(fixed)
        THEN [raised |-> "none", epts |-> <<timegm(fixed) + tplus, fixed.msec>>]
        ELSE [raised |-> "ValueError", epts |-> <<0, 0>>]

\* The timestamps the calls are made on: valid and invalid dates, the ends
\* of months, of years, of a leap February, of hours and of minutes.
DclYears == {1999, 2000, 2015, 2016}
DclMonths == {1, 2, 3, 12, 13}
DclDays == {0, 1, 28, 29, 30, 31}
DclHours == {0, 23, 25}
DclMinutes == {0, 30, 59}
DclSeconds == {0, 59, 60, 61}
DclMsecs == {0, 500}

DclStamps ==
    { DclStamp(y, mo, d, h, mi, s, f) :
        y \in DclYears, mo \in DclMonths, d \in DclDays, h \in DclHours,
        mi \in DclMinutes, s \in DclSeconds, f \in DclMsecs }

NoResult == [raised |-> "none", epts |-> <<0, 0>>]

DclInit ==
    /\ time_string \in DclStamps
    /\ dcl_result = NoResult
    /\ dcl_pc = "call"

DclIdle ==
    /\ time_string = DclStamp(1970, 1, 1, 0, 0, 0, 0)
    /\ dcl_result = NoResult
    /\ dcl_pc = "idle"

DclCall ==
    /\ dcl_pc = "call"
    /\ dcl_result' = dcl_to_epoch(time_string)
    /\ dcl_pc' = IF dcl_to_epoch(time_string).raised = "none"
                 THEN "returned" ELSE "raised"
    /\ UNCHANGED <<time_string, notDcl>>

-----------------------------------------------------------------------------
(* cgsn_parsers/parsers/parse_adcp.py                                      *)

RECURSIVE BitAnd(_, _)
\* Python's a & b on non-negative integers.
BitAnd(a, b) ==
    IF a = 0 \/ b = 0 THEN 0
    ELSE (a % 2) * (b % 2) + 2 * BitAnd(a \div 2, b \div 2)

\* Python's a >> n.
ShiftR(a, n) == a \div (2 ^ n)

\* A two-byte value read as '<h'.
Signed16(v) == IF v >= 32768 THEN v - 65536 ELSE v

\* Python 2's a / b on integers with b > 0: the floor of the quotient.
FloorDiv(a, b) == IF a >= 0 THEN a \div b ELSE -((-a + b - 1) \div b)

\* The data type ids of the PD0 chunks the decoder knows.
FixedId == 0
VariableId == 128
VelocityId == 256
CorrelationId == 512
EchoId == 768
PercentId == 1024

\* The status flags of the variable leader: for each flag column the byte of
\* the chunk it is read from (error_status_word_1 is byte 42, word_2 byte
\* 43, word_3 byte 44, word_4 byte 45 of '<2H10B3H2hHh18BH2I9B') and the
\* mask it is tested with.
AdcpStatusFlags ==
    [bus_error_exception |-> <<42, 1>>,
     address_error_exception |-> <<42, 2>>,
     illegal_instruction_exception |-> <<42, 4>>,
     zero_divide_instruction |-> <<42, 8>>,
     emulator_exception |-> <<42, 16>>,
     unassigned_exception |-> <<42, 32>>,
     watchdog_restart_occurred |-> <<42, 64>>,
     battery_saver_power |-> <<42, 128>>,
     pinging |-> <<42, 1>>,
     cold_wakeup_occurred |-> <<42, 64>>,
     unknown_wakeup_occurred |-> <<42, 128>>,
     clock_read_error |-> <<44, 1>>,
     unexpected_alarm |-> <<44, 2>>,
     clock_jump_forward |-> <<44, 4>>,
     clock_jump_backward |-> <<44, 8>>,
     power_fail |-> <<45, 8>>,
     spurious_dsp_interrupt |-> <<45, 16>>,
     spurious_uart_interrupt |-> <<45, 32>>,
     spurious_clock_interrupt |-> <<45, 64>>,
     level_7_interrupt |-> <<45, 128>>]

\* "1 if word & mask else 0" for the flag column c.
StatusFlag(chunk, c) ==
    IF BitAnd(At(chunk, AdcpStatusFlags[c][1]), AdcpStatusFlags[c][2]) # 0
    THEN 1 ELSE 0

\* ParameterNames.create_dict: the empty tables.  Of the fixed and the
\* variable leader the model keeps the columns the decoder's raise
\* statements separate (each stands for the columns appended with it) and
\* the bit fields.
AdcpEmpty ==
    [time |-> << >>,
     header |-> [num_bytes |-> << >>, num_data_types |-> << >>],
     fixed |-> [firmware_version |-> << >>, sysconfig_frequency |-> << >>,
                sysconfig_sensor_config |-> << >>, data_flag |-> << >>,
                num_cells |-> << >>, signal_processing_mode |-> << >>,
                coord_transform_type |-> << >>, beam_angle |-> << >>],
     variable |-> [c \in {"ensemble_number", "real_time_clock2"}
                          \cup DOMAIN AdcpStatusFlags |-> << >>],
     velocity |-> [eastward |-> << >>, northward |-> << >>,
                   vertical |-> << >>, error |-> << >>],
     correlation |-> [magnitude_beam1 |-> << >>, magnitude_beam2 |-> << >>,
                      magnitude_beam3 |-> << >>, magnitude_beam4 |-> << >>],
     echo |-> [intensity_beam1 |-> << >>, intensity_beam2 |-> << >>,
               intensity_beam3 |-> << >>, intensity_beam4 |-> << >>],
     percent |-> [good_3beam |-> << >>, transforms_reject |-> << >>,
                  bad_beams |-> << >>, good_4beam |-> << >>]]

\* What a step of the decoder hands on: the tables, the local iCells (-1
\* while it is unbound) and the exception raised, "none" while running.
AdcpSt(d, c, e) == [data |-> d, iCells |-> c, exc |-> e]

\* REGEX.match(line): the hex text starts 7F7F, four hex digits, 00, 06 or
\* 07 and at least one more byte.  A line is held as its timestamp groups
\* and the bytes unhexlify makes of its hex text.
REGEX_match(line) ==
    /\ Len(line.hex) >= 7
    /\ line.hex[1] = 127 /\ line.hex[2] = 127
    /\ line.hex[5] = 0
    /\ line.hex[6] \in {6, 7}

\* _parse_fixed_chunk(chunk)
ParseFixedChunk(st, chunk) ==
    IF Len(chunk) # 59 THEN AdcpSt(st.data, st.iCells, "struct.error")
    ELSE
    LET firmware_version == At(chunk, 2)
        sysconfig_frequency == UnpackLE16(Slice(chunk, 4, 6))
        data_flag == At(chunk, 6)
        num_cells == At(chunk, 9)
        signal_processing_mode == At(chunk, 16)
        coord_transform_type == At(chunk, 25)
        beam_angle == At(chunk, 58)
        frequencies == <<75, 150, 300, 600, 1200, 2400>>
        fi == BitAnd(sysconfig_frequency, 7)
        f0 == st.data.fixed
        f1 == [f0 EXCEPT !.firmware_version = Append(@, firmware_version)]
        f2 == [f1 EXCEPT
                 !.sysconfig_frequency = Append(@, frequencies[fi + 1]),
                 !.sysconfig_sensor_config =
                     Append(@, BitAnd(sysconfig_frequency, ShiftR(48, 4)))]
        f3 == [f2 EXCEPT !.data_flag = Append(@, data_flag),
                         !.num_cells = Append(@, num_cells)]
        f4 == [f3 EXCEPT
                 !.signal_processing_mode = Append(@, signal_processing_mode),
                 !.coord_transform_type =
                     Append(@, BitAnd(coord_transform_type, ShiftR(24, 3))),
                 !.beam_angle = Append(@, beam_angle)]
        with(f, c, e) == AdcpSt([st.data EXCEPT !.fixed = f], c, e)
    IN  IF fi >= 6 THEN with(f1, num_cells, "IndexError")
        ELSE IF data_flag # 0 THEN with(f2, num_cells, "Exception")
        ELSE IF signal_processing_mode # 1 THEN with(f3, num_cells, "Exception")
        ELSE with(f4, num_cells, "none")

\* _parse_variable_chunk(chunk)
ParseVariableChunk(st, chunk) ==
    IF Len(chunk) # 65 THEN AdcpSt(st.data, st.iCells, "struct.error")
    ELSE
    LET ensemble_number == UnpackLE16(Slice(chunk, 2, 4))
        rtc2 == Slice(chunk, 56, 65)
        v == [c \in DOMAIN st.data.variable |->
                Append(st.data.variable[c],
                       CASE c = "ensemble_number" -> ensemble_number
                         [] c = "real_time_clock2" -> rtc2
                         [] OTHER -> StatusFlag(chunk, c))]
    IN  AdcpSt([st.data EXCEPT !.variable = v], st.iCells, "none")

RECURSIVE BeamRows(_, _, _, _, _)
\* The loop "for row in range(1, N)" of the four array chunks: the list of
\* the values of beam b (1..4), each w bytes wide, read from offset + 2 on.
BeamRows(chunk, N, w, b, row) ==
    IF row >= N THEN << >>
    ELSE LET offset == (row - 1) * 4 * w
             at == offset + 2 + (b - 1) * w
             val == IF w = 2
                    THEN Signed16(UnpackLE16(Slice(chunk, at, at + 2)))
                    ELSE At(chunk, at)
         IN  <<val>> \o BeamRows(chunk, N, w, b, row + 1)

\* The number of depth cells the array chunks derive from their length.
VelocityN(chunk) == FloorDiv(FloorDiv(Len(chunk) - 2, 2), 4)
ByteN(chunk) == FloorDiv(Len(chunk) - 2, 4)

\* _parse_velocity_chunk(chunk)
ParseVelocityChunk(st, chunk) ==
    IF Len(chunk) < 2 THEN AdcpSt(st.data, st.iCells, "struct.error")
    ELSE
    LET N == VelocityN(chunk)
        v == [st.data.velocity EXCEPT
                !.eastward = Append(@, BeamRows(chunk, N, 2, 1, 1)),
                !.northward = Append(@, BeamRows(chunk, N, 2, 2, 1)),
                !.vertical = Append(@, BeamRows(chunk, N, 2, 3, 1)),
                !.error = Append(@, BeamRows(chunk, N, 2, 4, 1))]
    IN  AdcpSt([st.data EXCEPT !.velocity = v], st.iCells, "none")

\* _parse_corelation_magnitude_chunk(chunk)
ParseCorrelationChunk(st, chunk) ==
    IF Len(chunk) < 2 THEN AdcpSt(st.data, st.iCells, "struct.error")
    ELSE
    LET N == ByteN(chunk)
        v == [st.data.correlation EXCEPT
                !.magnitude_beam1 = Append(@, BeamRows(chunk, N, 1, 1, 1)),
                !.magnitude_beam2 = Append(@, BeamRows(chunk, N, 1, 2, 1)),
                !.magnitude_beam3 = Append(@, BeamRows(chunk, N, 1, 3, 1)),
                !.magnitude_beam4 = Append(@, BeamRows(chunk, N, 1, 4, 1))]
    IN  AdcpSt([st.data EXCEPT !.correlation = v], st.iCells, "none")

\* _parse_echo_intensity_chunk(chunk)
ParseEchoChunk(st, chunk) ==
    IF Len(chunk) < 2 THEN AdcpSt(st.data, st.iCells, "struct.error")
    ELSE
    LET N == ByteN(chunk)
        v == [st.data.echo EXCEPT
                !.intensity_beam1 = Append(@, BeamRows(chunk, N, 1, 1, 1)),
                !.intensity_beam2 = Append(@, BeamRows(chunk, N, 1, 2, 1)),
                !.intensity_beam3 = Append(@, BeamRows(chunk, N, 1, 3, 1)),
                !.intensity_beam4 = Append(@, BeamRows(chunk, N, 1, 4, 1))]
    IN  AdcpSt([st.data EXCEPT !.echo = v], st.iCells, "none")

\* _parse_percent_good_chunk(chunk)
ParsePercentChunk(st, chunk) ==
    IF Len(chunk) < 2 THEN AdcpSt(st.data, st.iCells, "struct.error")
    ELSE
    LET N == ByteN(chunk)
        v == [st.data.percent EXCEPT
                !.good_3beam = Append(@, BeamRows(chunk, N, 1, 1, 1)),
                !.transforms_reject = Append(@, BeamRows(chunk, N, 1, 2, 1)),
                !.bad_beams = Append(@, BeamRows(chunk, N, 1, 3, 1)),
                !.good_4beam = Append(@, BeamRows(chunk, N, 1, 4, 1))]
    IN  AdcpSt([st.data EXCEPT !.percent = v], st.iCells, "none")

\* The body of "for offset in offsets": the data type at the offset picks
\* the chunk parser; a type the decoder does not know is passed over.  The
\* array chunks read the local iCells, bound only by a fixed leader earlier
\* in the same ensemble.
ParseOffset(st, ensemble, offset) ==
    IF Len(Slice(ensemble, offset, offset + 2)) # 2
    THEN AdcpSt(st.data, st.iCells, "struct.error")
    ELSE
    LET data_type == UnpackLE16(Slice(ensemble, offset, offset + 2))
        unbound == AdcpSt(st.data, st.iCells, "UnboundLocalError")
    IN  CASE data_type = FixedId ->
               ParseFixedChunk(st, Slice(ensemble, offset, offset + 59))
          [] data_type = VariableId ->
               ParseVariableChunk(st, Slice(ensemble, offset, offset + 65))
          [] data_type = VelocityId ->
               IF st.iCells < 0 THEN unbound
               ELSE ParseVelocityChunk(st,
                      Slice(ensemble, offset, offset + 2 + 8 * st.iCells))
          [] data_type = CorrelationId ->
               IF st.iCells < 0 THEN unbound
               ELSE ParseCorrelationChunk(st,
                      Slice(ensemble, offset, offset + 2 + 4 * st.iCells))
          [] data_type = EchoId ->
               IF st.iCells < 0 THEN unbound
               ELSE ParseEchoChunk(st,
                      Slice(ensemble, offset, offset + 2 + 4 * st.iCells))
          [] data_type = PercentId ->
               IF st.iCells < 0 THEN unbound
               ELSE ParsePercentChunk(st,
                      Slice(ensemble, offset, offset + 2 + 4 * st.iCells))
          [] OTHER -> st

RECURSIVE ParseOffsets(_, _, _)
\* "for offset in offsets": an exception ends the loop.
ParseOffsets(st, ensemble, offsets) ==
    IF offsets = << >> \/ st.exc # "none" THEN st
    ELSE ParseOffsets(ParseOffset(st, ensemble, Head(offsets)), ensemble,
                      Tail(offsets))

\* The offset table: num_data_types two-byte offsets from byte 6 on.
OffsetsComplete(ensemble, n) == Len(ensemble) >= 6 + 2 * n
ReadOffsets(ensemble, n) ==
    [k \in 1..n |-> UnpackLE16(Slice(ensemble, 6 + 2 * (k - 1), 8 + 2 * (k - 1)))]

\* The checksum test of an ensemble: the sum of its first length bytes,
\* modulo 65536, against the little-endian word that follows them.
AdcpChecksum(ensemble, length) == BitAnd(SumBytes(Slice(ensemble, 0, length)), 65535)
AdcpStored(ensemble, length) == UnpackLE16(Slice(ensemble, length, length + 2))

\* _build_parsed_values(match) on the tables data: the tables it leaves
\* and the exception it raises, if any.
BuildParsedValues(data, line) ==
    LET ensemble == line.hex
        length == UnpackLE16(Slice(ensemble, 2, 4))
        num_data_types == At(ensemble, 5)
        stop(e) == AdcpSt(data, -1, e)
        t == dcl_to_epoch(line.stamp)
        d1 == [data EXCEPT
                 !.time = Append(@, t.epts),
                 !.header.num_bytes = Append(@, length),
                 !.header.num_data_types = Append(@, num_data_types)]
    IN  IF length > Len(ensemble) THEN stop("IndexError")
        ELSE IF Len(Slice(ensemble, length, length + 2)) # 2 THEN stop("struct.error")
        ELSE IF AdcpChecksum(ensemble, length) # AdcpStored(ensemble, length)
             THEN stop("Checksum mismatch")
        ELSE IF t.raised # "none" THEN stop(t.raised)
        ELSE IF ~OffsetsComplete(ensemble, num_data_types)
             THEN AdcpSt(d1, -1, "struct.error")
        ELSE ParseOffsets(AdcpSt(d1, -1, "none"), ensemble,
                          ReadOffsets(ensemble, num_data_types))

(* The ADCP files the decoder is run on *)

\* A 59-byte fixed leader.
FixedChunk(cells, sysconfig, data_flag, mode, coord) ==
    [i \in 1..59 |->
        CASE i = 3 -> 50
          [] i = 5 -> sysconfig % 256
          [] i = 6 -> sysconfig \div 256
          [] i = 7 -> data_flag
          [] i = 9 -> 4
          [] i = 10 -> cells
          [] i = 17 -> mode
          [] i = 26 -> coord
          [] i = 59 -> 20
          [] OTHER -> 0]

\* A 65-byte variable leader.
VariableChunk(ensemble_number) ==
    <<128, 0>> \o PackLE16(ensemble_number) \o Zeros(61)

\* A variable leader with the four error status words given.
VariableChunkWith(ensemble_number, w1, w2, w3, w4) ==
    <<128, 0>> \o PackLE16(ensemble_number) \o Zeros(38)
        \o <<w1, w2, w3, w4>> \o Zeros(19)

\* An array chunk of data type id (as its two bytes) holding n bytes, each
\* different from its neighbours.
ArrayChunk(id, n, seed) == id \o [i \in 1..n |-> (seed + 7 * i) % 256]

VelocityChunk(cells, seed) == ArrayChunk(<<0, 1>>, 8 * cells, seed)
CorrelationChunk(cells, seed) == ArrayChunk(<<0, 2>>, 4 * cells, seed)
EchoChunk(cells, seed) == ArrayChunk(<<0, 3>>, 4 * cells, seed)
PercentChunk(cells, seed) == ArrayChunk(<<0, 4>>, 4 * cells, seed)
\* A bottom-track chunk (data type 0x0600), which the decoder does not read.
BottomTrackChunk == <<0, 6>> \o Zeros(10)

RECURSIVE ChunkOffsets(_, _)
\* The offsets of consecutive chunks, the first at byte at.
ChunkOffsets(chunks, at) ==
    IF chunks = << >> THEN << >>
    ELSE <<at>> \o ChunkOffsets(Tail(chunks), at + Len(Head(chunks)))

RECURSIVE PackOffsets(_)
PackOffsets(offsets) ==
    IF offsets = << >> THEN << >>
    ELSE PackLE16(Head(offsets)) \o PackOffsets(Tail(offsets))

\* A PD0 ensemble of the chunks with the offset table given: header, offset
\* table, chunks, two reserved bytes and the checksum of all before it.
EnsembleWith(chunks, offsets) ==
    LET n == Len(chunks)
        rest == PackOffsets(offsets) \o Concat(chunks) \o <<0, 0>>
        num_bytes == 6 + Len(rest)
        body == <<127, 127>> \o PackLE16(num_bytes) \o <<0, n>> \o rest
    IN  body \o PackLE16(SumBytes(body) % 65536)

Ensemble(chunks) == EnsembleWith(chunks, ChunkOffsets(chunks, 6 + 2 * Len(chunks)))

\* The six chunks of a standard ensemble of the given number of depth cells.
StandardChunks(cells, seed) ==
    << FixedChunk(cells, 16 + 32 + 1, 0, 1, 24 + 4 + 1), VariableChunk(seed),
       VelocityChunk(cells, seed), CorrelationChunk(cells, seed + 1),
       EchoChunk(cells, seed + 2), PercentChunk(cells, seed + 3) >>

\* The ensemble with its stored checksum off by one.
BadChecksum(e) == SetByte(e, Len(e) - 2, (At(e, Len(e) - 2) + 1) % 256)

\* The ensemble cut k bytes short, as a line that was not logged whole.
CutShort(e, k) == SubSeq(e, 1, Len(e) - k)

\* A standard ensemble whose last offset points past its end (the checksum
\* is right for the bytes as they are).
OffsetPastEnd(cells, seed) ==
    LET chunks == StandardChunks(cells, seed)
        good == ChunkOffsets(chunks, 6 + 2 * Len(chunks))
    IN  EnsembleWith(chunks, [good EXCEPT ![6] = 4000])

AdcpLineOf(stamp, hex) == [stamp |-> stamp, hex |-> hex]

GoodStampA == DclStamp(2016, 2, 29, 23, 59, 59, 500)
GoodStampB == DclStamp(2016, 3, 1, 0, 0, 60, 0)
BadStamp == DclStamp(2016, 13, 1, 25, 0, 0, 0)

\* The lines files are made of: two standard ensembles, one with a bottom
\* track as a seventh chunk, one with a bottom track in place of the percent
\* good chunk, one listing the velocity twice, one with a fixed leader the
\* decoder refuses, two with error status bits set, and damaged lines: a
\* wrong checksum, a timestamp that is no date, lines cut short, an offset
\* past the end, and a line of log text that is no ensemble.
AdcpLines ==
    { AdcpLineOf(GoodStampA, Ensemble(StandardChunks(2, 10))),
      AdcpLineOf(GoodStampB, Ensemble(StandardChunks(3, 40))),
      AdcpLineOf(GoodStampA, Ensemble(StandardChunks(2, 70) \o <<BottomTrackChunk>>)),
      AdcpLineOf(GoodStampA,
          Ensemble([StandardChunks(2, 90) EXCEPT ![6] = BottomTrackChunk])),
      AdcpLineOf(GoodStampA,
          Ensemble([StandardChunks(2, 110) EXCEPT ![6] = VelocityChunk(2, 5)])),
      AdcpLineOf(GoodStampA,
          Ensemble([StandardChunks(2, 130) EXCEPT ![1] = FixedChunk(2, 1, 0, 0, 0)])),
      AdcpLineOf(GoodStampA,
          Ensemble([StandardChunks(2, 150) EXCEPT
                      ![2] = VariableChunkWith(150, 1, 0, 0, 0)])),
      AdcpLineOf(GoodStampA,
          Ensemble([StandardChunks(2, 170) EXCEPT
                      ![2] = VariableChunkWith(170, 0, 1, 0, 0)])),
      AdcpLineOf(GoodStampA, BadChecksum(Ensemble(StandardChunks(2, 20)))),
      AdcpLineOf(BadStamp, Ensemble(StandardChunks(2, 30))),
      AdcpLineOf(GoodStampA, CutShort(Ensemble(StandardChunks(2, 50)), 9)),
      AdcpLineOf(GoodStampA, CutShort(Ensemble(StandardChunks(2, 60)), 1)),
      AdcpLineOf(GoodStampA, OffsetPastEnd(2, 80)),
      AdcpLineOf(GoodStampA, << >>) }

\* The most lines in a file.
MaxAdcpLines == 2

RECURSIVE SeqsUpTo(_, _)
\* The sequences over S of length 0..n.
SeqsUpTo(S, n) ==
    IF n = 0 THEN { << >> }
    ELSE LET shorter == SeqsUpTo(S, n - 1)
         IN  shorter \cup { Append(q, x) : q \in shorter, x \in S }

AdcpInit ==
    /\ adcp_raw \in SeqsUpTo(AdcpLines, MaxAdcpLines) \ { << >> }
    /\ adcp_line = 1
    /\ adcp_data = AdcpEmpty
    /\ adcp_pc = "run"
    /\ adcp_exc = "none"

AdcpIdle ==
    /\ adcp_raw = << >>
    /\ adcp_line = 1
    /\ adcp_data = AdcpEmpty
    /\ adcp_pc = "idle"
    /\ adcp_exc = "none"

\* One pass of the loop of parse_data: a line REGEX matches is handed to
\* _build_parsed_values, whose exception nothing catches; any other line is
\* passed over.
AdcpParseLine ==
    /\ adcp_pc = "run"
    /\ adcp_line <= Len(adcp_raw)
    /\ LET line == adcp_raw[adcp_line]
           st == IF REGEX_match(line) THEN BuildParsedValues(adcp_data, line)
                 ELSE AdcpSt(adcp_data, -1, "none")
       IN  /\ adcp_data' = st.data
           /\ adcp_exc' = st.exc
           /\ adcp_pc' = IF st.exc # "none" THEN "raised"
                         ELSE IF adcp_line = Len(adcp_raw) THEN "done"
                         ELSE "run"
           /\ adcp_line' = IF st.exc # "none" THEN adcp_line ELSE adcp_line + 1
    /\ UNCHANGED <<adcp_raw, notAdcp>>

-----------------------------------------------------------------------------
(* parse_vel3d.py, parse_velpt.py: _calc_checksum                          *)

RECURSIVE WordSum(_, _, _)
\* The loop "for x in range(0, stop, 2): base += unpack('<H', record[x:x+2])"
\* from x on.
WordSum(record, x, stop) ==
    IF x >= stop THEN 0
    ELSE UnpackLE16(Slice(record, x, x + 2)) + WordSum(record, x + 2, stop)

\* _calc_checksum with the loop ending one word early.
calc_checksum_short(length, record) ==
    (46476 + WordSum(record, 0, length - 4)) % 65536

\* _calc_checksum(length, record): the base 0xb58c plus the 16-bit
\* little-endian words of the record before its checksum, modulo 65536.
calc_checksum(length, record) ==
    (46476 + WordSum(record, 0, length - 2)) % 65536

\* The decoders' test "check != self._calc_checksum(size, record)" on a
\* whole packet, check being its last two bytes read as '<H'.
NortekVerify(record) ==
    UnpackLE16(Slice(record, Len(record) - 2, Len(record)))
        = calc_checksum(Len(record), record)

\* The checksum an instrument puts on a packet body of even length: the
\* base plus the low bytes plus 256 times the high bytes of the words.
NortekSum(body) ==
    LET lows == { i \in 1..Len(body) : i % 2 = 1 }
        highs == { i \in 1..Len(body) : i % 2 = 0 }
        lowsum == SumBytes([k \in 1..Cardinality(lows) |-> body[2 * k - 1]])
        highsum == SumBytes([k \in 1..Cardinality(highs) |-> body[2 * k]])
    IN  (46476 + lowsum + 256 * highsum) % 65536

\* The packet of a body: the body followed by its checksum, low byte first.
NortekPacket(body) == body \o PackLE16(NortekSum(body))

\* The byte values packets are filled with, and the most words in a body.
CkBytes == {0, 128, 255}
MaxCkWords == 2

RECURSIVE SeqsOfLen(_, _)
\* The sequences over S of length n.
SeqsOfLen(S, n) ==
    IF n = 0 THEN { << >> }
    ELSE { Append(q, x) : q \in SeqsOfLen(S, n - 1), x \in S }

CkBodies == UNION { SeqsOfLen(CkBytes, 2 * w) : w \in 0..MaxCkWords }

CkInit ==
    /\ ck_record \in { NortekPacket(b) : b \in CkBodies }
    /\ ck_ok = FALSE
    /\ ck_pc = "built"

CkIdle ==
    /\ ck_record = << >>
    /\ ck_ok = FALSE
    /\ ck_pc = "idle"

\* The decoder's comparison, on the packet as built and on the packet again
\* after a byte of it was changed.
CkVerify ==
    /\ ck_pc \in {"built", "mutated"}
    /\ ck_ok' = NortekVerify(ck_record)
    /\ ck_pc' = IF ck_pc = "built" THEN "verified" ELSE "reverified"
    /\ UNCHANGED <<ck_record, notCk>>

\* One byte before the checksum takes another value.
CkMutate ==
    /\ ck_pc = "verified"
    /\ \E i \in 0..(Len(ck_record) - 3) :
         \E b \in Byte \ { At(ck_record, i) } :
            ck_record' = SetByte(ck_record, i, b)
    /\ ck_pc' = "mutated"
    /\ UNCHANGED <<ck_ok, notCk>>

-----------------------------------------------------------------------------
(* cgsn_parsers/parsers/parse_vel3d.py                                     *)

\* A conversion that reads the byte as a plain binary number.
convert_bcd_binary(cBCD) ==
    LET c == Min(cBCD, 153)
    IN  BitAnd(c, 15) + 16 * ShiftR(c, 4)

\* A conversion without the clamp to 0x99.
convert_bcd_noclamp(cBCD) == BitAnd(cBCD, 15) + 10 * ShiftR(cBCD, 4)

\* _convert_bcd(cBCD)
convert_bcd(cBCD) ==
    LET c == Min(cBCD, 153)
    IN  BitAnd(c, 15) + 10 * ShiftR(c, 4)

\* A clock that puts every two-digit year in the 2000s.
NortekDate_2000(minute, second, day, hour, year, month) ==
    [year |-> convert_bcd(year) + 2000,
     month |-> convert_bcd(month), day |-> convert_bcd(day),
     hour |-> convert_bcd(hour), minute |-> convert_bcd(minute),
     second |-> convert_bcd(second)]

\* The civil time of the six BCD bytes of a packet: a two-digit year from
\* 90 on is a year of the 1900s, a lower one of the 2000s.
NortekDate(minute, second, day, hour, year, month) ==
    LET y == convert_bcd(year)
    IN  [year |-> IF y >= 90 THEN y + 1900 ELSE y + 2000,
         month |-> convert_bcd(month), day |-> convert_bcd(day),
         hour |-> convert_bcd(hour), minute |-> convert_bcd(minute),
         second |-> convert_bcd(second)]

date_array(t) == <<t.year, t.month, t.day, t.hour, t.minute, t.second>>

\* ParameterNames.create_dict: the empty system and velocity tables (the
\* scaled columns hold the integer read from the packet).
Vel3dEmpty ==
    [system |-> [time |-> << >>, date_time_array |-> << >>,
                 battery_voltage |-> << >>, speed_of_sound |-> << >>,
                 heading |-> << >>, pitch |-> << >>, roll |-> << >>,
                 temperature |-> << >>, error_code |-> << >>,
                 status_code |-> << >>],
     velocity |-> [time |-> << >>, ensemble_counter |-> << >>,
                   pressure |-> << >>, velocity_east |-> << >>,
                   velocity_north |-> << >>, velocity_vertical |-> << >>,
                   amplitudes |-> << >>, correlations |-> << >>]]

\* What a _build_parsed_ method hands back: the tables, its return value
\* and the exception it raised, if any.
Vel3dRet(d, r, e) == [data |-> d, ret |-> r, exc |-> e]

\* The test of a system packet's size word and checksum.
SystemValid(system) ==
    LET size == UnpackLE16(Slice(system, 2, 4))
    IN  size * 2 = 28 /\ UnpackLE16(Slice(system, 26, 28)) = calc_checksum(size * 2, system)

\* _build_parsed_system(system) on the tables data.
build_parsed_system(data, system) ==
    IF Len(system) # 28 THEN Vel3dRet(data, FALSE, "struct.error")
    ELSE IF ~SystemValid(system) THEN Vel3dRet(data, FALSE, "none")
    ELSE
    LET t == NortekDate(At(system, 4), At(system, 5), At(system, 6),
                        At(system, 7), At(system, 8), At(system, 9))
        s0 == data.system
        s1 == [s0 EXCEPT
                 !.time = Append(@, timegm(t)),
                 !.date_time_array = Append(@, date_array(t)),
                 !.battery_voltage = Append(@, UnpackLE16(Slice(system, 10, 12))),
                 !.speed_of_sound = Append(@, UnpackLE16(Slice(system, 12, 14))),
                 !.heading = Append(@, Signed16(UnpackLE16(Slice(system, 14, 16)))),
                 !.pitch = Append(@, Signed16(UnpackLE16(Slice(system, 16, 18)))),
                 !.roll = Append(@, Signed16(UnpackLE16(Slice(system, 18, 20)))),
                 !.temperature = Append(@, Signed16(UnpackLE16(Slice(system, 20, 22)))),
                 !.error_code = Append(@, At(system, 22)),
                 !.status_code = Append(@, At(system, 23))]
    IN  IF ~ValidDatetime(t) THEN Vel3dRet(data, FALSE, "ValueError")
        ELSE Vel3dRet([data EXCEPT !.system = s1], TRUE, "none")

\* The test of a velocity packet's size and checksum.
VelocityValid(velocity) ==
    /\ Len(velocity) = 24
    /\ UnpackLE16(Slice(velocity, 22, 24)) = calc_checksum(Len(velocity), velocity)

\* _build_parsed_velocity(velocity) on the tables data.
build_parsed_velocity(data, velocity) ==
    IF Len(velocity) # 24 THEN Vel3dRet(data, FALSE, "struct.error")
    ELSE IF ~VelocityValid(velocity) THEN Vel3dRet(data, FALSE, "none")
    ELSE
    LET v0 == data.velocity
        v1 == [v0 EXCEPT
                 !.ensemble_counter = Append(@, At(velocity, 3)),
                 !.pressure = Append(@, 65536 * At(velocity, 4)
                                        + UnpackLE16(Slice(velocity, 6, 8))),
                 !.velocity_east = Append(@, Signed16(UnpackLE16(Slice(velocity, 10, 12)))),
                 !.velocity_north = Append(@, Signed16(UnpackLE16(Slice(velocity, 12, 14)))),
                 !.velocity_vertical = Append(@, Signed16(UnpackLE16(Slice(velocity, 14, 16)))),
                 !.amplitudes = Append(@, Slice(velocity, 16, 19)),
                 !.correlations = Append(@, Slice(velocity, 19, 22))]
    IN  Vel3dRet([data EXCEPT !.velocity = v1], TRUE, "none")

\* The offsets at which a two-byte marker followed by n more bytes fits
\* into raw.
Candidates(raw, m1, m2, n) ==
    { p \in 0..(Len(raw) - 2 - n) : At(raw, p) = m1 /\ At(raw, p + 1) = m2 }

RECURSIVE FromLeft_overlapping(_, _, _)
\* A scan that reports overlapping matches: every candidate.
FromLeft_overlapping(cands, size, pos) ==
    LET later == { p \in cands : p >= pos }
    IN  IF later = { } THEN << >>
        ELSE LET p == CHOOSE q \in later : \A r \in later : q <= r
             IN  <<p>> \o FromLeft_overlapping(cands, size, p + 1)

RECURSIVE FromLeft(_, _, _)
\* The matches finditer reports: from pos on, the first candidate, then the
\* matches after the end of that match.
FromLeft(cands, size, pos) ==
    LET later == { p \in cands : p >= pos }
    IN  IF later = { } THEN << >>
        ELSE LET p == CHOOSE q \in later : \A r \in later : q <= r
             IN  <<p>> \o FromLeft(cands, size, p + size)

\* [m.start() for m in MATCHER.finditer(raw)] for a pattern of a two-byte
\* marker and n bytes of any value.
finditer(raw, m1, m2, n) == FromLeft(Candidates(raw, m1, m2, n), 2 + n, 0)

SYSTEM_MATCHER(raw) == finditer(raw, 165, 17, 26)
VELOCITY_MATCHER(raw) == finditer(raw, 165, 16, 22)

(* The VEL3D files the decoder is run on *)

\* The BCD byte of a number 0..99.
ToBCD(n) == 16 * (n \div 10) + (n % 10)

\* A 28-byte system packet of the clock t (its year given by two digits).
SystemPacket(t, battery, status) ==
    NortekPacket(<<165, 17>> \o PackLE16(14)
        \o <<ToBCD(t.minute), ToBCD(t.second), ToBCD(t.day), ToBCD(t.hour),
             ToBCD(t.year % 100), ToBCD(t.month)>>
        \o PackLE16(battery) \o PackLE16(15000)
        \o PackLE16(1800) \o PackLE16(65526) \o PackLE16(20) \o PackLE16(1234)
        \o <<0, status>> \o PackLE16(0))

\* A 24-byte velocity packet.
VelocityPacket(count, vel) ==
    NortekPacket(<<165, 16, 0, count, 1, 0>> \o PackLE16(2000 + count)
        \o PackLE16(0)
        \o PackLE16(vel) \o PackLE16(65536 - vel) \o PackLE16(3)
        \o <<100, 101, 102, 90, 91, 92>>)

\* A packet with its stored checksum off by one.
NortekBadChecksum(packet) ==
    SetByte(packet, Len(packet) - 2, (At(packet, Len(packet) - 2) + 1) % 256)

\* A system packet whose size word is wrong (the checksum fits the bytes).
SystemBadSize(packet) ==
    NortekPacket(SubSeq(packet, 1, 2) \o PackLE16(15) \o SubSeq(packet, 5, 26))

ClockA == [year |-> 2016, month |-> 1, day |-> 15, hour |-> 10, minute |-> 30, second |-> 0]
ClockB == [year |-> 1995, month |-> 12, day |-> 31, hour |-> 23, minute |-> 59, second |-> 59]

\* The pieces files are made of: system packets of two clocks, velocity
\* packets, each kind also with a wrong checksum, a system packet with a
\* wrong size word, and bytes between packets that hold no marker.
Vel3dPieces ==
    { SystemPacket(ClockA, 120, 48),
      SystemPacket(ClockB, 96, 49),
      NortekBadChecksum(SystemPacket(ClockA, 110, 48)),
      SystemBadSize(SystemPacket(ClockA, 100, 48)),
      VelocityPacket(1, 250),
      VelocityPacket(2, 300),
      NortekBadChecksum(VelocityPacket(3, 350)),
      <<0, 16, 17, 7>> }

\* The most pieces in a file, and the sample rates given on the command line
\* (0 is the default of the switch).
MaxVel3dPieces == 3
Vel3dSampleRates == {0, 8}

Vel3dNoLocals == [start |-> 0, last |-> 0, time |-> 0, cnt |-> 0]

Vel3dInit ==
    /\ v3_raw \in { Concat(f) : f \in SeqsUpTo(Vel3dPieces, MaxVel3dPieces) }
    /\ v3_sample_rate \in Vel3dSampleRates
    /\ v3_data = Vel3dEmpty
    /\ v3_system_marker = << >>
    /\ v3_velocity_marker = << >>
    /\ v3_loc = Vel3dNoLocals
    /\ v3_pc = "scan"
    /\ v3_exc = "none"

\* The files the loops of parse_velocity are followed to their end on:
\* files of packets only, a system and a velocity packet and each of them
\* with a wrong checksum, read at 8 samples a second.
Vel3dLoopPieces ==
    { SystemPacket(ClockA, 120, 48),
      NortekBadChecksum(SystemPacket(ClockA, 110, 48)),
      VelocityPacket(1, 250),
      NortekBadChecksum(VelocityPacket(3, 350)) }

\* The most packets in such a file.
MaxVel3dLoopPieces == 3

Vel3dLoopsInit ==
    /\ v3_raw \in { Concat(f) : f \in SeqsUpTo(Vel3dLoopPieces, MaxVel3dLoopPieces) }
    /\ v3_sample_rate = 8
    /\ v3_data = Vel3dEmpty
    /\ v3_system_marker = << >>
    /\ v3_velocity_marker = << >>
    /\ v3_loc = Vel3dNoLocals
    /\ v3_pc = "scan"
    /\ v3_exc = "none"

Vel3dIdle ==
    /\ v3_raw = << >>
    /\ v3_sample_rate = 0
    /\ v3_data = Vel3dEmpty
    /\ v3_system_marker = << >>
    /\ v3_velocity_marker = << >>
    /\ v3_loc = Vel3dNoLocals
    /\ v3_pc = "idle"
    /\ v3_exc = "none"

\* A counter that starts at one.
vtime_from_one(time, cnt) == <<time, cnt + 1>>

\* "vtime = float(time) + (float(cnt) * 1/self.sample_rate)": the seconds
\* of the system packet and the count of samples after it.
vtime(time, cnt) == <<time, cnt>>

\* parse_velocity, its first two statements: the lists of the markers.
Vel3dScan ==
    /\ v3_pc = "scan"
    /\ v3_system_marker' = SYSTEM_MATCHER(v3_raw)
    /\ v3_velocity_marker' = VELOCITY_MATCHER(v3_raw)
    /\ v3_pc' = IF SYSTEM_MATCHER(v3_raw) = << >> THEN "done" ELSE "system"
    /\ UNCHANGED <<v3_raw, v3_sample_rate, v3_data, v3_loc, v3_exc, notVel3d>>

\* A loop that goes round without removing its marker.
Vel3dPopSystem_kept ==
    /\ v3_system_marker' = v3_system_marker
    /\ v3_pc' = "system"

\* "system_marker.pop(0)" and the test of "while system_marker".
Vel3dPopSystem ==
    /\ v3_system_marker' = Tail(v3_system_marker)
    /\ v3_pc' = IF Tail(v3_system_marker) = << >> THEN "done" ELSE "system"

\* A pass of "while system_marker" up to "if system": the system packet at
\* the first marker is parsed, and time is read from the last row of the
\* system table whatever the parse returned.
Vel3dSystem ==
    /\ v3_pc = "system"
    /\ LET start == v3_system_marker[1]
           last == IF Len(v3_system_marker) = 1 THEN Len(v3_raw)
                   ELSE v3_system_marker[2]
           r == build_parsed_system(v3_data, Slice(v3_raw, start, start + 28))
           times == r.data.system.time
       IN  /\ v3_data' = r.data
           /\ IF r.exc # "none" \/ times = << >>
              THEN /\ v3_pc' = "raised"
                   /\ v3_exc' = IF r.exc # "none" THEN r.exc ELSE "IndexError"
                   /\ UNCHANGED <<v3_system_marker, v3_loc>>
              ELSE /\ v3_loc' = [start |-> start, last |-> last,
                                 time |-> times[Len(times)], cnt |-> 0]
                   /\ v3_exc' = "none"
                   /\ IF r.ret
                      THEN v3_pc' = "velocity" /\ UNCHANGED v3_system_marker
                      ELSE Vel3dPopSystem
    /\ UNCHANGED <<v3_raw, v3_sample_rate, v3_velocity_marker, notVel3d>>

\* A pass of "while velocity_marker", or the end of that loop.  The return
\* value of _build_parsed_velocity is not looked at: the time is appended
\* and the counter raised whatever it is.
Vel3dVelocity ==
    /\ v3_pc = "velocity"
    /\ IF v3_velocity_marker = << >>
       THEN Vel3dPopSystem /\ UNCHANGED <<v3_velocity_marker, v3_data, v3_loc, v3_exc>>
       ELSE IF v3_velocity_marker[1] < v3_loc.start
       THEN /\ v3_velocity_marker' = Tail(v3_velocity_marker)
            /\ UNCHANGED <<v3_system_marker, v3_pc, v3_data, v3_loc, v3_exc>>
       ELSE IF v3_velocity_marker[1] > v3_loc.last
       THEN Vel3dPopSystem /\ UNCHANGED <<v3_velocity_marker, v3_data, v3_loc, v3_exc>>
       ELSE LET vstrt == v3_velocity_marker[1]
                r == build_parsed_velocity(v3_data, Slice(v3_raw, vstrt, vstrt + 24))
            IN  IF r.exc # "none" \/ v3_sample_rate = 0
                THEN /\ v3_data' = r.data
                     /\ v3_pc' = "raised"
                     /\ v3_exc' = IF r.exc # "none" THEN r.exc ELSE "ZeroDivisionError"
                     /\ UNCHANGED <<v3_system_marker, v3_velocity_marker, v3_loc>>
                ELSE /\ v3_data' = [r.data EXCEPT !.velocity.time =
                                                   Append(@, vtime(v3_loc.time, v3_loc.cnt))]
                     /\ v3_velocity_marker' = Tail(v3_velocity_marker)
                     /\ v3_loc' = [v3_loc EXCEPT !.cnt = @ + 1]
                     /\ UNCHANGED <<v3_system_marker, v3_pc, v3_exc>>
    /\ UNCHANGED <<v3_raw, v3_sample_rate, notVel3d>>

-----------------------------------------------------------------------------
(* cgsn_parsers/parsers/parse_optaa.py                                     *)

\* MARKER: the registration bytes ff 00 ff 00 at offset p of raw.
OptaaMarkerAt(raw, p) ==
    /\ p + 4 <= Len(raw)
    /\ At(raw, p) = 255 /\ At(raw, p + 1) = 0
    /\ At(raw, p + 2) = 255 /\ At(raw, p + 3) = 0

\* regex0.search(raw): PATTERN with a lazy body of any length, then MARKER.
\* The 32 bytes up to nwave, the checksum and the pad byte are 35 bytes of
\* any value, so a match starts at the leftmost marker that has another
\* marker 35 or more bytes after it; -1 stands for None.
regex0_search(raw) ==
    LET starts == { p \in 0..(Len(raw) - 4) :
                      /\ OptaaMarkerAt(raw, p)
                      /\ \E q \in (p + 35)..(Len(raw) - 4) : OptaaMarkerAt(raw, q) }
    IN  IF starts = { } THEN -1
        ELSE CHOOSE p \in starts : \A q \in starts : p <= q

\* regex_pp.findall(raw): the starts of the matches of PATTERN with a body
\* of 8 * nwave bytes, from the left and not overlapping.
regex_pp_findall(raw, nwave) ==
    LET total == 35 + 8 * nwave
    IN  FromLeft({ p \in 0..(Len(raw) - total) : OptaaMarkerAt(raw, p) }, total, 0)

\* acs_checksum_agreement(packet): the sum of the bytes before the checksum
\* and the pad byte, its low 16 bits, against the big-endian checksum.
acs_checksum_agreement(packet) ==
    LET n == Len(packet)
    IN  SumBytes(Slice(packet, 0, n - 3)) % 65536 = UnpackBE16(Slice(packet, n - 3, n - 1))

\* time0 with the first packet's milliseconds left out.
optaa_time0_nosub(epts, msec0) == <<epts, 0>>

\* "time0 = epts - unpack('>I', packet0.group(15))[0]/1000.0": seconds and
\* milliseconds.
optaa_time0(epts, msec0) == <<epts, 0 - msec0>>

\* A split of the body into four blocks, one per channel.
OpticalChannel_contiguous(body, nwave, k) ==
    [w \in 1..nwave |->
        UnpackBE16(Slice(body, 2 * (k * nwave + w - 1), 2 * (k * nwave + w - 1) + 2))]

\* optical_data[k::4]: every fourth value of the nwave * 4 big-endian words
\* of the body, from the k-th on.
OpticalChannel(body, nwave, k) ==
    [w \in 1..nwave |-> UnpackBE16(Slice(body, 8 * (w - 1) + 2 * k, 8 * (w - 1) + 2 * k + 2))]

OptaaEmpty ==
    [time |-> << >>, serial_number |-> << >>,
     a_reference_dark_counts |-> << >>, pressure_counts |-> << >>,
     a_signal_dark_counts |-> << >>, raw_external_temperature_counts |-> << >>,
     raw_internal_temperature_counts |-> << >>, c_reference_dark_counts |-> << >>,
     c_signal_dark_counts |-> << >>, time_msec_since_power_up |-> << >>,
     number_of_wavelengths |-> << >>, cref_raw_counts |-> << >>,
     aref_raw_counts |-> << >>, csig_raw_counts |-> << >>, asig_raw_counts |-> << >>]

\* _build_parsed_values(match, nwave, time0) on the table data; match is a
\* match of regex_pp, so its body holds 8 * nwave bytes.
OptaaBuildParsedValues(data, match, nwave, time0) ==
    LET time_msec_since_power_up == UnpackBE32(Slice(match, 26, 30))
        body == Slice(match, 32, 32 + 8 * nwave)
        W(a) == UnpackBE16(Slice(match, a, a + 2))
    IN  [data EXCEPT
           !.time = Append(@, <<time0[1], time0[2] + time_msec_since_power_up>>),
           !.serial_number = Append(@, W(10)),
           !.a_reference_dark_counts = Append(@, W(12)),
           !.pressure_counts = Append(@, W(14)),
           !.a_signal_dark_counts = Append(@, W(16)),
           !.raw_external_temperature_counts = Append(@, W(18)),
           !.raw_internal_temperature_counts = Append(@, W(20)),
           !.c_reference_dark_counts = Append(@, W(22)),
           !.c_signal_dark_counts = Append(@, W(24)),
           !.time_msec_since_power_up = Append(@, time_msec_since_power_up),
           !.number_of_wavelengths = Append(@, At(match, 31)),
           !.cref_raw_counts = Append(@, OpticalChannel(body, nwave, 0)),
           !.aref_raw_counts = Append(@, OpticalChannel(body, nwave, 1)),
           !.csig_raw_counts = Append(@, OpticalChannel(body, nwave, 2)),
           !.asig_raw_counts = Append(@, OpticalChannel(body, nwave, 3))]

(* The OPTAA files the decoder is run on *)

\* A packet: declared record length, wavelengths, milliseconds since power
\* up, and the optical counts derived from seed.
OptaaPacketOf(record_length, nwave, msec, seed) ==
    LET head == <<255, 0, 255, 0>> \o PackBE16(record_length) \o <<5, 1, 83, 0>>
                \o PackBE16(123) \o PackBE16(500 + seed) \o PackBE16(600 + seed)
                \o PackBE16(700 + seed) \o PackBE16(800 + seed) \o PackBE16(900 + seed)
                \o PackBE16(1000 + seed) \o PackBE16(1100 + seed)
                \o PackBE32(msec) \o <<1, nwave>>
        body == Concat([w \in 1..nwave |->
                    PackBE16(seed + 10 * w + 1) \o PackBE16(seed + 10 * w + 2)
                    \o PackBE16(seed + 10 * w + 3) \o PackBE16(seed + 10 * w + 4)])
        sum == SumBytes(head \o body) % 65536
    IN  head \o body \o PackBE16(sum) \o <<0>>

OptaaPacket(nwave, msec, seed) == OptaaPacketOf(32 + 8 * nwave, nwave, msec, seed)

\* A packet with its stored checksum off by one.
OptaaBadChecksum(packet) ==
    SetByte(packet, Len(packet) - 2, (At(packet, Len(packet) - 2) + 1) % 256)

\* A packet with its number-of-wavelengths byte set to n and the checksum
\* of the bytes as they then are: its length stays what it was.
OptaaWithNwave(packet, n) ==
    LET summed == Slice(SetByte(packet, 31, n), 0, Len(packet) - 3)
    IN  summed \o PackBE16(SumBytes(summed) % 65536) \o <<0>>

\* The pieces files are made of: packets of one wavelength at 1000, 1500 and
\* 70000 ms, one of them with a wrong checksum, a packet of two wavelengths,
\* packets whose declared length is 3 or 8 bytes more than their wavelengths
\* need, a packet as long as one wavelength needs whose wavelength byte
\* reads 2, and bytes between packets that hold no marker.
OptaaPieces ==
    { OptaaPacket(1, 1000, 1),
      OptaaPacket(1, 1500, 2),
      OptaaPacket(1, 70000, 3),
      OptaaBadChecksum(OptaaPacket(1, 2000, 4)),
      OptaaPacket(2, 2500, 5),
      OptaaPacketOf(43, 1, 3000, 6),
      OptaaPacketOf(48, 1, 3500, 7),
      OptaaWithNwave(OptaaPacket(1, 4000, 8), 2),
      <<0, 255, 0, 7>> }

\* The most pieces in a file, and the creation times of the files' names.
MaxOptaaPieces == 3
OptaaEpochs == {1452853800, 1456790399}

OptaaNoLocals == [nwave |-> 0, time0 |-> <<0, 0>>]

OptaaInit ==
    /\ op_raw \in { Concat(f) : f \in SeqsUpTo(OptaaPieces, MaxOptaaPieces) }
    /\ op_epts \in OptaaEpochs
    /\ op_data = OptaaEmpty
    /\ op_packets = << >>
    /\ op_loc = OptaaNoLocals
    /\ op_pc = "first"
    /\ op_exc = "none"

OptaaIdle ==
    /\ op_raw = << >>
    /\ op_epts = 0
    /\ op_data = OptaaEmpty
    /\ op_packets = << >>
    /\ op_loc = OptaaNoLocals
    /\ op_pc = "idle"
    /\ op_exc = "none"

\* parse_data up to its loop: the first packet is searched and its record
\* length compared with its wavelengths (an integer division in Python 2),
\* time0 is set and the packets of that many wavelengths are listed.
OptaaFirstPacket ==
    /\ op_pc = "first"
    /\ LET packet0 == regex0_search(op_raw)
           record_length == UnpackBE16(Slice(op_raw, packet0 + 4, packet0 + 6))
           nwave == At(op_raw, packet0 + 31)
           msec0 == UnpackBE32(Slice(op_raw, packet0 + 26, packet0 + 30))
           packets == regex_pp_findall(op_raw, nwave)
       IN  IF packet0 = -1
           THEN /\ op_pc' = "raised" /\ op_exc' = "AttributeError"
                /\ UNCHANGED <<op_packets, op_loc>>
           ELSE IF nwave # FloorDiv(record_length - 32, 8)
           THEN /\ op_pc' = "raised" /\ op_exc' = "Exception"
                /\ UNCHANGED <<op_packets, op_loc>>
           ELSE /\ op_loc' = [nwave |-> nwave, time0 |-> optaa_time0(op_epts, msec0)]
                /\ op_packets' = packets
                /\ op_pc' = IF packets = << >> THEN "done" ELSE "packets"
                /\ op_exc' = "none"
    /\ UNCHANGED <<op_raw, op_epts, op_data, notOptaa>>

\* A pass of "for packet in packets".
OptaaPacketStep ==
    /\ op_pc = "packets"
    /\ LET p == op_packets[1]
           packet == Slice(op_raw, p, p + 35 + 8 * op_loc.nwave)
       IN  op_data' = IF acs_checksum_agreement(packet)
                      THEN OptaaBuildParsedValues(op_data, packet, op_loc.nwave, op_loc.time0)
                      ELSE op_data
    /\ op_packets' = Tail(op_packets)
    /\ op_pc' = IF Tail(op_packets) = << >> THEN "done" ELSE "packets"
    /\ UNCHANGED <<op_raw, op_epts, op_loc, op_exc, notOptaa>>

-----------------------------------------------------------------------------
(* cgsn_parsers/parsers/parse_mopak.py                                     *)

\* "twake = 0.053 + (2. * 100. / 1000.)", in milliseconds.
twake == 253

\* [m.start() for m in REGEX.finditer(raw)]: the byte cb and 42 bytes of
\* any value, from the left and not overlapping.
MopakFinditer(raw) ==
    FromLeft({ p \in 0..(Len(raw) - 43) : At(raw, p) = 203 }, 43, 0)

\* A checksum reduced to one byte.
mopak_calc_checksum_byte(packet) == SumBytes(packet) % 256

\* _calc_checksum(packet): the sum of the bytes, its low 16 bits.
mopak_calc_checksum(packet) == SumBytes(packet) % 65536

\* A '>f' field: the IEEE-754 single is named by its four bytes.
UnpackFloat(b) == b

MopakEmpty ==
    [time |-> << >>, acceleration_x |-> << >>, acceleration_y |-> << >>,
     acceleration_z |-> << >>, angular_rate_x |-> << >>, angular_rate_y |-> << >>,
     angular_rate_z |-> << >>, magnetometer_x |-> << >>, magnetometer_y |-> << >>,
     magnetometer_z |-> << >>, timer |-> << >>]

MopakRet(d, r, e) == [data |-> d, ret |-> r, exc |-> e]

\* _build_parsed_values(packet, epts) on the table data; epts is the pair
\* <<seconds, milliseconds>>.  The timer column holds timer / 62500. as
\* its count of ticks.
MopakBuildParsedValues(data, packet, epts) ==
    IF Len(packet) # 43 THEN MopakRet(data, FALSE, "struct.error")
    ELSE
    LET F(k) == UnpackFloat(Slice(packet, 1 + 4 * (k - 1), 1 + 4 * k))
        accx == F(1)
        accy == F(2)
        accz == F(3)
        angx == F(4)
        angy == F(5)
        angz == F(6)
        magx == F(7)
        magy == F(8)
        magz == F(9)
        timer == UnpackBE32(Slice(packet, 37, 41))
        check == UnpackBE16(Slice(packet, 41, 43))
    IN  IF check # mopak_calc_checksum(Slice(packet, 0, 41))
        THEN MopakRet(data, FALSE, "none")
        ELSE MopakRet([data EXCEPT
                 !.time = Append(@, <<epts[1], epts[2], timer>>),
                 !.acceleration_x = Append(@, accx),
                 !.acceleration_y = Append(@, accy),
                 !.acceleration_z = Append(@, accz),
                 !.angular_rate_x = Append(@, angx),
                 !.angular_rate_y = Append(@, angy),
                 !.angular_rate_z = Append(@, angz),
                 !.magnetometer_x = Append(@, magx),
                 !.magnetometer_y = Append(@, magz),
                 !.magnetometer_z = Append(@, magz),
                 !.timer = Append(@, timer)], TRUE, "none")

(* The MOPAK files the decoder is run on *)

\* A packet: the marker, nine floats derived from seed, the timer and the
\* checksum.
MopakPacket(timer, seed) ==
    LET body == <<203>>
                \o Concat([k \in 1..9 |-> <<63 + (k % 2), 16 * k, seed, k>>])
                \o PackBE32(timer)
    IN  body \o PackBE16(SumBytes(body) % 65536)

\* A packet with its stored checksum off by one.
MopakBadChecksum(packet) ==
    SetByte(packet, Len(packet) - 1, (At(packet, Len(packet) - 1) + 1) % 256)

\* The pieces files are made of: packets whose timers read 0, 0.253 s, 1 s
\* and 1.5 s, a packet with a wrong checksum, and bytes between packets
\* without and with the marker byte.
MopakPieces ==
    { MopakPacket(0, 1),
      MopakPacket(15813, 2),
      MopakPacket(62500, 3),
      MopakPacket(93750, 4),
      MopakBadChecksum(MopakPacket(125000, 5)),
      <<0, 7>>,
      <<203, 1, 2>> }

\* The most pieces in a file, and the creation times of the files' names.
MaxMopakPieces == 3
MopakEpochs == {1452853800, 1456790399}

MopakInit ==
    /\ mo_raw \in { Concat(f) : f \in SeqsUpTo(MopakPieces, MaxMopakPieces) }
    /\ mo_epts \in { <<t, 0>> : t \in MopakEpochs }
    /\ mo_data = MopakEmpty
    /\ mo_record_marker = << >>
    /\ mo_pc = "scan"
    /\ mo_exc = "none"

MopakIdle ==
    /\ mo_raw = << >>
    /\ mo_epts = <<0, 0>>
    /\ mo_data = MopakEmpty
    /\ mo_record_marker = << >>
    /\ mo_pc = "idle"
    /\ mo_exc = "none"

\* parse_data up to its loop: "epts = epts + twake" and the list of the
\* markers.
MopakScan ==
    /\ mo_pc = "scan"
    /\ mo_epts' = <<mo_epts[1], mo_epts[2] + twake>>
    /\ mo_record_marker' = MopakFinditer(mo_raw)
    /\ mo_pc' = IF MopakFinditer(mo_raw) = << >> THEN "done" ELSE "packets"
    /\ UNCHANGED <<mo_raw, mo_data, mo_exc, notMopak>>

\* A pass of "while record_marker".
MopakPacketStep ==
    /\ mo_pc = "packets"
    /\ LET start == mo_record_marker[1]
           r == MopakBuildParsedValues(mo_data, Slice(mo_raw, start, start + 43), mo_epts)
       IN  /\ mo_data' = r.data
           /\ IF r.exc # "none"
              THEN /\ mo_pc' = "raised" /\ mo_exc' = r.exc
                   /\ UNCHANGED mo_record_marker
              ELSE /\ mo_record_marker' = Tail(mo_record_marker)
                   /\ mo_pc' = IF Tail(mo_record_marker) = << >> THEN "done" ELSE "packets"
                   /\ UNCHANGED mo_exc
    /\ UNCHANGED <<mo_raw, mo_epts, notMopak>>

-----------------------------------------------------------------------------
(* _convert_bcd, the Nortek clock and the frame scanners, called on their  *)
(* own                                                                     *)

\* Buffers are made of pieces, whole frames and noise.  MOPAK frames (0xCB
\* and 42 bytes): one whose bytes are all 0xCB, one ending in 0xCB, one
\* without a further 0xCB; noise without 0xCB.
MopakScanPieces ==
    { [kind |-> "frame", bytes |-> [i \in 1..43 |-> 203]],
      [kind |-> "frame", bytes |-> <<203>> \o Zeros(41) \o <<203>>],
      [kind |-> "frame", bytes |-> <<203>> \o [i \in 1..42 |-> (5 * i) % 200]],
      [kind |-> "noise", bytes |-> <<0>>],
      [kind |-> "noise", bytes |-> <<202, 204, 1>>] }

\* VEL3D velocity frames (0xA5 0x10 and 22 bytes): one made of the marker
\* repeated, one ending in 0xA5, one whose payload starts 0x10 0xA5 0x10;
\* noise ending in 0xA5 and noise starting with 0x10.
VelocityScanPieces ==
    { [kind |-> "frame", bytes |-> [i \in 1..24 |-> IF i % 2 = 1 THEN 165 ELSE 16]],
      [kind |-> "frame", bytes |-> <<165, 16>> \o Zeros(21) \o <<165>>],
      [kind |-> "frame", bytes |-> <<165, 16, 16, 165, 16>> \o Zeros(19)],
      [kind |-> "noise", bytes |-> <<0, 165>>],
      [kind |-> "noise", bytes |-> <<16, 9>>] }

\* The most pieces in a buffer.
MaxScanPieces == 3

\* self.raw: the bytes of the pieces one after the other.
ScanRaw(buf) == Concat([i \in 1..Len(buf) |-> buf[i].bytes])

\* The arguments: every byte; the six clock bytes of a Nortek packet in
\* packet order (minute, second, day, hour, year, month) with every year
\* byte; the buffers of up to MaxScanPieces pieces in which no two pieces
\* of noise that follow each other put a marker together.
FnInit ==
    /\ fn_name \in {"convert_bcd", "NortekDate", "MopakFinditer", "VELOCITY_MATCHER"}
    /\ fn_arg \in
         CASE fn_name = "convert_bcd" -> Byte
           [] fn_name = "NortekDate" ->
                { <<ToBCD(30), ToBCD(15), ToBCD(17), ToBCD(8), year, ToBCD(6)>> :
                    year \in Byte }
           [] fn_name = "MopakFinditer" -> SeqsUpTo(MopakScanPieces, MaxScanPieces)
           [] OTHER ->
                { buf \in SeqsUpTo(VelocityScanPieces, MaxScanPieces) :
                    \A i \in 1..(Len(buf) - 1) :
                        (buf[i].kind = "noise" /\ buf[i + 1].kind = "noise")
                            => ~(/\ buf[i].bytes[Len(buf[i].bytes)] = 165
                                 /\ buf[i + 1].bytes[1] = 16) }
    /\ fn_result = << >>
    /\ fn_pc = "call"

FnIdle ==
    /\ fn_name = "none"
    /\ fn_arg = << >>
    /\ fn_result = << >>
    /\ fn_pc = "idle"

\* cBCD -> self._convert_bcd(cBCD)
FnConvertBcd ==
    /\ fn_pc = "call" /\ fn_name = "convert_bcd"
    /\ fn_result' = convert_bcd(fn_arg)
    /\ fn_pc' = "returned"
    /\ UNCHANGED <<fn_name, fn_arg, notFn>>

\* The decoding of the clock bytes in _build_parsed_header,
\* _build_parsed_system and _parse_aquadopp_packet.
FnNortekDate ==
    /\ fn_pc = "call" /\ fn_name = "NortekDate"
    /\ fn_result' = NortekDate(fn_arg[1], fn_arg[2], fn_arg[3],
                               fn_arg[4], fn_arg[5], fn_arg[6])
    /\ fn_pc' = "returned"
    /\ UNCHANGED <<fn_name, fn_arg, notFn>>

\* record_marker = [m.start() for m in REGEX.finditer(self.raw)]
FnMopakScan ==
    /\ fn_pc = "call" /\ fn_name = "MopakFinditer"
    /\ fn_result' = MopakFinditer(ScanRaw(fn_arg))
    /\ fn_pc' = "returned"
    /\ UNCHANGED <<fn_name, fn_arg, notFn>>

\* velocity_marker = [m.start() for m in VELOCITY_MATCHER.finditer(self.raw)]
FnVelocityScan ==
    /\ fn_pc = "call" /\ fn_name = "VELOCITY_MATCHER"
    /\ fn_result' = VELOCITY_MATCHER(ScanRaw(fn_arg))
    /\ fn_pc' = "returned"
    /\ UNCHANGED <<fn_name, fn_arg, notFn>>

-----------------------------------------------------------------------------
(* ParameterNames and Parser of parsers/common.py and of                   *)
(* cgsn_parsers/parsers/common.py, in one Python process                   *)

\* The parser modules of the model and the parameter names each declares
\* (the first two of its list).
PnDeclared ==
    [hydrogen |-> <<"dcl_date_time_string", "hydrogen_concentration">>,
     metbk |-> <<"dcl_date_time_string", "barometric_pressure">>,
     mopak |-> <<"acceleration_x", "acceleration_y">>,
     fdchp |-> <<"dcl_date_time_string", "start_time">>]

\* How a module declares them.  "extend": parsers/parse_hydrogen.py and
\* parsers/parse_metbk.py run ParameterNames.parameters.extend([...]) on the
\* class of parsers/common.py when they are imported.  "initialize":
\* cgsn_parsers/parsers/parse_mopak.py keeps a list of its own and hands it
\* to ParserCommon.initialize.  "ImportError": cgsn_parsers/parsers/
\* parse_fdchp.py asks "from common import ParameterNames, Parser" of the
\* common.py next to it, which defines no Parser.
PnStyle ==
    [hydrogen |-> "extend", metbk |-> "extend", mopak |-> "initialize",
     fdchp |-> "ImportError"]

\* The most Parser objects made, and the most records one decodes.
MaxParsers == 2
MaxPnRows == 2

\* ParameterNames.create_dict: "for name in parameters: bunch[name] = []",
\* the new lists taking the places after the first n of the heap; a name
\* listed twice keeps the list made for it last.
create_dict(parameters, n) ==
    [name \in { parameters[k] : k \in 1..Len(parameters) } |->
        n + CHOOSE k \in 1..Len(parameters) :
              /\ parameters[k] = name
              /\ \A j \in 1..Len(parameters) : parameters[j] = name => j <= k]

PnInit ==
    /\ pn_parameters = <<"time">>
    /\ pn_imported = { }
    /\ pn_parsers = << >>
    /\ pn_heap = << >>
    /\ pn_pc = "run"
    /\ pn_exc = "none"

PnIdle ==
    /\ pn_parameters = <<"time">>
    /\ pn_imported = { }
    /\ pn_parsers = << >>
    /\ pn_heap = << >>
    /\ pn_pc = "idle"
    /\ pn_exc = "none"

\* import of a parser module, once in a process.
PnImport ==
    /\ pn_pc = "run"
    /\ \E module \in DOMAIN PnDeclared \ pn_imported :
         IF PnStyle[module] = "ImportError"
         THEN /\ pn_pc' = "raised"
              /\ pn_exc' = "ImportError"
              /\ UNCHANGED <<pn_parameters, pn_imported>>
         ELSE /\ pn_imported' = pn_imported \cup {module}
              /\ pn_parameters' = IF PnStyle[module] = "extend"
                                  THEN pn_parameters \o PnDeclared[module]
                                  ELSE pn_parameters
              /\ UNCHANGED <<pn_pc, pn_exc>>
    /\ UNCHANGED <<pn_parsers, pn_heap, notPn>>

\* Parser(infile) of an imported module: Parser.__init__ of
\* parsers/common.py, or ParserCommon.initialize(infile, parameters).
PnNewParser ==
    /\ pn_pc = "run"
    /\ Len(pn_parsers) < MaxParsers
    /\ \E module \in pn_imported :
         LET parameters == IF PnStyle[module] = "extend" THEN pn_parameters
                           ELSE <<"time">> \o PnDeclared[module]
             data == create_dict(parameters, Len(pn_heap))
         IN  /\ pn_parsers' = Append(pn_parsers, [module |-> module, data |-> data])
             /\ pn_heap' = pn_heap \o [k \in 1..Len(parameters) |-> << >>]
    /\ UNCHANGED <<pn_parameters, pn_imported, pn_pc, pn_exc, notPn>>

\* A Parser decodes a record: self.data.time.append(...) and
\* self.data.<name>.append(...) for each of its module's names.  The value
\* stands for the record: the Parser and the number of the record.
PnParseRecord ==
    /\ pn_pc = "run"
    /\ \E i \in 1..Len(pn_parsers) :
         LET data == pn_parsers[i].data
             own == {"time"} \cup { PnDeclared[pn_parsers[i].module][k] : k \in 1..2 }
             lists == { data[name] : name \in own }
             row == Len(pn_heap[data["time"]]) + 1
         IN  /\ row <= MaxPnRows
             /\ pn_heap' = [k \in 1..Len(pn_heap) |->
                              IF k \in lists THEN Append(pn_heap[k], <<i, row>>)
                              ELSE pn_heap[k]]
    /\ UNCHANGED <<pn_parameters, pn_imported, pn_parsers, pn_pc, pn_exc, notPn>>

-----------------------------------------------------------------------------
(* parsers/parse_velpt.py: parse_diagnostics                               *)

HEADER_MATCHER(raw) == finditer(raw, 165, 6, 34)
DIAGNOSTICS_MATCHER(raw) == finditer(raw, 165, 128, 40)

\* ParameterNames.create_dict: the empty header, diagnostics and velocity
\* tables of the names in _header and _packet (the scaled columns hold the
\* integer read from the packet).
VelptEmpty ==
    LET _header == {"time", "records_to_follow", "cell_number", "noise_amplitudes",
                    "processing_magnitudes", "beam_distances"}
        _packet == {"time", "date_time_array", "error_code", "battery_voltage",
                    "speed_of_sound", "heading", "pitch", "roll", "pressure",
                    "status_code", "temperature", "velocity_east",
                    "velocity_north", "velocity_vertical", "amplitude_beam1",
                    "amplitude_beam2", "amplitude_beam3"}
    IN  [header |-> [c \in _header |-> << >>],
         diagnostics |-> [c \in _packet |-> << >>],
         velocity |-> [c \in _packet |-> << >>]]

\* _parse_aquadopp_packet(packet): what it returns (ok is FALSE for the
\* empty list) and the exception datetime() raised, if any.
parse_aquadopp_packet(packet) ==
    LET size == UnpackLE16(Slice(packet, 2, 4))
        valid == /\ size * 2 = 42
                 /\ UnpackLE16(Slice(packet, 40, 42)) = calc_checksum(size * 2, packet)
        t == NortekDate(At(packet, 4), At(packet, 5), At(packet, 6),
                        At(packet, 7), At(packet, 8), At(packet, 9))
        row == [time |-> timegm(t),
                date_time_array |-> date_array(t),
                error_code |-> Signed16(UnpackLE16(Slice(packet, 10, 12))),
                battery_voltage |-> UnpackLE16(Slice(packet, 14, 16)),
                speed_of_sound |-> UnpackLE16(Slice(packet, 16, 18)),
                heading |-> Signed16(UnpackLE16(Slice(packet, 18, 20))),
                pitch |-> Signed16(UnpackLE16(Slice(packet, 20, 22))),
                roll |-> Signed16(UnpackLE16(Slice(packet, 22, 24))),
                pressure |-> 65536 * At(packet, 24) + UnpackLE16(Slice(packet, 26, 28)),
                status_code |-> IF At(packet, 25) >= 128 THEN At(packet, 25) - 256
                                ELSE At(packet, 25),
                temperature |-> Signed16(UnpackLE16(Slice(packet, 28, 30))),
                velocity_east |-> Signed16(UnpackLE16(Slice(packet, 30, 32))),
                velocity_north |-> Signed16(UnpackLE16(Slice(packet, 32, 34))),
                velocity_vertical |-> Signed16(UnpackLE16(Slice(packet, 34, 36))),
                amplitude_beam1 |-> At(packet, 36),
                amplitude_beam2 |-> At(packet, 37),
                amplitude_beam3 |-> At(packet, 38)]
    IN  IF ~valid THEN [ok |-> FALSE, exc |-> "none", row |-> << >>]
        ELSE IF ~ValidDatetime(t) THEN [ok |-> FALSE, exc |-> "ValueError", row |-> << >>]
        ELSE [ok |-> TRUE, exc |-> "none", row |-> row]

\* _build_parsed_diagnostics(diagnostics) on the tables data: the tables
\* after it and the exception it raised, if any.
velpt_build_parsed_diagnostics(data, diagnostics) ==
    LET r == parse_aquadopp_packet(diagnostics)
    IN  IF ~r.ok THEN [data |-> data, exc |-> r.exc]
        ELSE [data |-> [data EXCEPT !.diagnostics =
                          [c \in DOMAIN @ |-> Append(@[c], r.row[c])]],
              exc |-> "none"]

\* _build_parsed_header(header) on the tables data: it appends to every
\* column of the header table but time.
velpt_build_parsed_header(data, header) ==
    LET size == UnpackLE16(Slice(header, 2, 4))
        h0 == data.header
        h1 == [h0 EXCEPT
                 !.records_to_follow = Append(@, UnpackLE16(Slice(header, 4, 6))),
                 !.cell_number = Append(@, UnpackLE16(Slice(header, 6, 8))),
                 !.noise_amplitudes = Append(@, Slice(header, 8, 12)),
                 !.processing_magnitudes =
                     Append(@, [k \in 1..4 |-> UnpackLE16(Slice(header, 10 + 2 * k, 12 + 2 * k))]),
                 !.beam_distances =
                     Append(@, [k \in 1..4 |-> UnpackLE16(Slice(header, 18 + 2 * k, 20 + 2 * k))])]
    IN  IF size * 2 # 36 THEN data
        ELSE IF UnpackLE16(Slice(header, 34, 36)) # calc_checksum(size * 2, header) THEN data
        ELSE [data EXCEPT !.header = h1]

(* The VELPT files the decoder is run on *)

\* A 36-byte diagnostics header packet.
VelptHeaderPacket(records, cell) ==
    NortekPacket(<<165, 6>> \o PackLE16(18) \o PackLE16(records) \o PackLE16(cell)
        \o <<40, 41, 42, 43>>
        \o PackLE16(300) \o PackLE16(301) \o PackLE16(302) \o PackLE16(303)
        \o PackLE16(50) \o PackLE16(51) \o PackLE16(52) \o PackLE16(53)
        \o Zeros(6))

\* A 42-byte diagnostics packet of the clock t.
VelptDiagnosticsPacket(t, vel) ==
    NortekPacket(<<165, 128>> \o PackLE16(21)
        \o <<ToBCD(t.minute), ToBCD(t.second), ToBCD(t.day), ToBCD(t.hour),
             ToBCD(t.year % 100), ToBCD(t.month)>>
        \o PackLE16(0) \o PackLE16(0) \o PackLE16(118) \o PackLE16(15000)
        \o PackLE16(1800) \o PackLE16(65526) \o PackLE16(20)
        \o <<0, 48>> \o PackLE16(2000) \o PackLE16(1234)
        \o PackLE16(vel) \o PackLE16(65536 - vel) \o PackLE16(3)
        \o <<100, 101, 102, 0>>)

\* The pieces files are made of: header packets, diagnostics packets of
\* two clocks, each kind also with a wrong checksum, and bytes between
\* packets that hold no marker.
VelptPieces ==
    { VelptHeaderPacket(2, 1),
      NortekBadChecksum(VelptHeaderPacket(3, 1)),
      VelptDiagnosticsPacket(ClockA, 250),
      VelptDiagnosticsPacket(ClockB, 300),
      NortekBadChecksum(VelptDiagnosticsPacket(ClockA, 350)),
      <<0, 6, 128, 7>> }

\* The most pieces in a file.
MaxVelptPieces == 3

VelptInit ==
    /\ vp_raw \in { Concat(f) : f \in SeqsUpTo(VelptPieces, MaxVelptPieces) }
    /\ vp_data = VelptEmpty
    /\ vp_header_marker = << >>
    /\ vp_diagnostics_marker = << >>
    /\ vp_loc = [start |-> 0, last |-> 0, cnt |-> 0]
    /\ vp_pc = "scan"
    /\ vp_exc = "none"

VelptIdle ==
    /\ vp_raw = << >>
    /\ vp_data = VelptEmpty
    /\ vp_header_marker = << >>
    /\ vp_diagnostics_marker = << >>
    /\ vp_loc = [start |-> 0, last |-> 0, cnt |-> 0]
    /\ vp_pc = "idle"
    /\ vp_exc = "none"

\* parse_diagnostics, its first two statements: the lists of the markers.
VelptScan ==
    /\ vp_pc = "scan"
    /\ vp_header_marker' = HEADER_MATCHER(vp_raw)
    /\ vp_diagnostics_marker' = DIAGNOSTICS_MATCHER(vp_raw)
    /\ vp_pc' = IF HEADER_MATCHER(vp_raw) = << >> THEN "done" ELSE "header"
    /\ UNCHANGED <<vp_raw, vp_data, vp_loc, vp_exc, notVelpt>>

\* "header_marker.pop(0)" and the test of "while header_marker".
VelptPopHeader ==
    /\ vp_header_marker' = Tail(vp_header_marker)
    /\ vp_pc' = IF Tail(vp_header_marker) = << >> THEN "done" ELSE "header"

\* A pass of "while header_marker" up to the inner loop: the header packet
\* at the first marker is parsed and the counter set to 0.
VelptHeader ==
    /\ vp_pc = "header"
    /\ LET start == vp_header_marker[1]
           last == IF Len(vp_header_marker) = 1 THEN Len(vp_raw)
                   ELSE vp_header_marker[2]
       IN  /\ vp_data' = velpt_build_parsed_header(vp_data, Slice(vp_raw, start, start + 36))
           /\ vp_loc' = [start |-> start, last |-> last, cnt |-> 0]
    /\ vp_pc' = "diagnostics"
    /\ UNCHANGED <<vp_raw, vp_header_marker, vp_diagnostics_marker, vp_exc, notVelpt>>

\* A pass of "while diagnostics_marker", or the end of that loop.  After
\* the first packet handled for a header, whatever became of it, the last
\* entry of diagnostics.time is appended to header.time.
VelptDiagnostics ==
    /\ vp_pc = "diagnostics"
    /\ IF vp_diagnostics_marker = << >>
       THEN VelptPopHeader /\ UNCHANGED <<vp_diagnostics_marker, vp_data, vp_loc, vp_exc>>
       ELSE IF vp_diagnostics_marker[1] < vp_loc.start
       THEN /\ vp_diagnostics_marker' = Tail(vp_diagnostics_marker)
            /\ UNCHANGED <<vp_header_marker, vp_pc, vp_data, vp_loc, vp_exc>>
       ELSE IF vp_diagnostics_marker[1] > vp_loc.last
       THEN VelptPopHeader /\ UNCHANGED <<vp_diagnostics_marker, vp_data, vp_loc, vp_exc>>
       ELSE LET dstrt == vp_diagnostics_marker[1]
                r == velpt_build_parsed_diagnostics(vp_data, Slice(vp_raw, dstrt, dstrt + 42))
                times == r.data.diagnostics.time
            IN  IF r.exc # "none"
                THEN /\ vp_data' = r.data
                     /\ vp_pc' = "raised"
                     /\ vp_exc' = r.exc
                     /\ UNCHANGED <<vp_header_marker, vp_diagnostics_marker, vp_loc>>
                ELSE /\ vp_diagnostics_marker' = Tail(vp_diagnostics_marker)
                     /\ vp_loc' = [vp_loc EXCEPT !.cnt = @ + 1]
                     /\ UNCHANGED vp_header_marker
                     /\ IF vp_loc.cnt + 1 # 1
                        THEN vp_data' = r.data /\ UNCHANGED <<vp_pc, vp_exc>>
                        ELSE IF times = << >>
                        THEN /\ vp_data' = r.data
                             /\ vp_pc' = "raised"
                             /\ vp_exc' = "IndexError"
                        ELSE /\ vp_data' = [r.data EXCEPT !.header.time =
                                              Append(@, times[Len(times)])]
                             /\ UNCHANGED <<vp_pc, vp_exc>>
    /\ UNCHANGED <<vp_raw, notVelpt>>

-----------------------------------------------------------------------------
(* cgsn_parsers/parsers/parse_metbk.py                                     *)

\* A line is held as its pieces of text in order: the DCL timestamp, the
\* single whitespace characters (blank and newline), and the fields between
\* them.  "\\s" is the two characters backslash and s.

\* The timestamps of the model's lines and what strptime reads from them.
MetbkStamps ==
    ("2014/08/17 00:00:10.568" :> DclStamp(2014, 8, 17, 0, 0, 10, 568))
    @@ ("2014/08/17 00:01:14.720" :> DclStamp(2014, 8, 17, 0, 1, 14, 720))
    @@ ("2014/08/17 00:02:18.912" :> DclStamp(2014, 8, 17, 0, 2, 18, 912))
    @@ ("2014/08/17 00:03:23.104" :> DclStamp(2014, 8, 17, 0, 3, 23, 104))

\* The numbers of the model's lines and their value in ten-thousandths.
MetbkNumbers ==
    ("1021.22" :> 10212200) @@ ("1023.22" :> 10232200) @@ ("1020.12" :> 10201200)
    @@ ("1020.94" :> 10209400) @@ ("62.072" :> 620720) @@ ("3.418" :> 34180)
    @@ ("298.2" :> 2982000) @@ ("14.05" :> 140500) @@ ("9.444" :> 94440)
    @@ ("3.1416" :> 31416) @@ ("40.0" :> 400000) @@ ("-5.38" :> -53800)
    @@ ("2.03" :> 20300) @@ ("3.1415" :> 31415) @@ ("12.50" :> 125000)

\* float(text) for a text FLTNAN matched.
metbk_float(text) ==
    IF text = "NaN" THEN [nan |-> TRUE, value |-> 0]
    ELSE [nan |-> FALSE, value |-> MetbkNumbers[text]]

RECURSIVE metbk_sub(_, _)
\* re.sub(r'\sN[aN]*\s', '\sNaN\s', line) from piece i on.  Python 2 leaves
\* the unknown escape \s of the replacement alone: each match, whitespace
\* included, becomes the seven characters \sNaN\s.
metbk_sub(line, i) ==
    IF i > Len(line) THEN << >>
    ELSE IF /\ i + 2 <= Len(line)
            /\ line[i] \in {" ", "\n"}
            /\ line[i + 1] \in {"N", "Na", "NaN"}
            /\ line[i + 2] \in {" ", "\n"}
         THEN <<"\\s", "NaN", "\\s">> \o metbk_sub(line, i + 3)
         ELSE <<line[i]>> \o metbk_sub(line, i + 1)

\* REGEX.match(line): the timestamp, whitespace, and twelve FLTNAN fields
\* with whitespace between them (no DCL status string on the model's lines).
metbk_match(line) ==
    /\ Len(line) >= 25
    /\ line[1] \in DOMAIN MetbkStamps
    /\ \A k \in 1..12 :
         /\ line[2 * k] \in {" ", "\n"}
         /\ line[2 * k + 1] \in DOMAIN MetbkNumbers \cup {"NaN"}

\* _parameter_names_metbk after dcl_date_time_string: column k takes
\* match.group(k + 1).
MetbkColumns ==
    <<"barometric_pressure", "relative_humidity", "air_temperature",
      "longwave_irradiance", "precipitation_level", "sea_surface_temperature",
      "sea_surface_conductivity", "shortwave_irradiance",
      "eastward_wind_velocity", "northward_wind_velocity">>

MetbkEmpty ==
    [c \in {"time", "dcl_date_time_string"} \cup { MetbkColumns[k] : k \in 1..10 }
       |-> << >>]

\* _build_parsed_values(match) on the table data, given the time
\* dcl_to_epoch returned.
metbk_build_parsed_values(data, line, epts) ==
    [c \in DOMAIN data |->
       IF c = "time" THEN Append(data[c], epts)
       ELSE IF c = "dcl_date_time_string" THEN Append(data[c], line[1])
       ELSE LET k == CHOOSE j \in 1..10 : MetbkColumns[j] = c
            IN  Append(data[c], metbk_float(line[2 * k + 1]))]

(* The METBK files the decoder is run on *)

\* Lines with every value present, with relative humidity and air
\* temperature missing as NaN, with shortwave irradiance missing as Na, with
\* the wind missing as N, and a line that is no record.  A line has single
\* blanks between its fields and a newline at its end.
MetbkLines ==
    LET MetbkLine(stamp, fields) ==
            <<stamp>> \o Concat([k \in 1..Len(fields) |-> <<" ", fields[k]>>])
                \o <<"\n">>
    IN
    { MetbkLine("2014/08/17 00:00:10.568",
                <<"1023.22", "62.072", "3.418", "298.2", "14.05", "9.444",
                  "3.1416", "40.0", "-5.38", "2.03", "3.1415", "12.50">>),
      MetbkLine("2014/08/17 00:01:14.720",
                <<"1021.22", "NaN", "NaN", "298.2", "14.05", "9.444",
                  "3.1416", "40.0", "-5.38", "2.03", "3.1415", "12.50">>),
      MetbkLine("2014/08/17 00:02:18.912",
                <<"1020.12", "62.072", "3.418", "298.2", "14.05", "9.444",
                  "3.1416", "Na", "-5.38", "2.03", "3.1415", "12.50">>),
      MetbkLine("2014/08/17 00:03:23.104",
                <<"1020.94", "62.072", "3.418", "298.2", "14.05", "9.444",
                  "3.1416", "40.0", "N", "N", "3.1415", "12.50">>),
      <<"2014/08/17 00:00:10.568", " ", "MET:", " ", "no", " ", "data", "\n">> }

\* The most lines in a file.
MaxMetbkLines == 3

MetbkInit ==
    /\ mb_raw \in SeqsUpTo(MetbkLines, MaxMetbkLines)
    /\ mb_line = 1
    /\ mb_data = MetbkEmpty
    /\ mb_pc = IF mb_raw = << >> THEN "done" ELSE "run"
    /\ mb_exc = "none"

MetbkIdle ==
    /\ mb_raw = << >>
    /\ mb_line = 1
    /\ mb_data = MetbkEmpty
    /\ mb_pc = "idle"
    /\ mb_exc = "none"

\* A pass of "for line in self.raw" of parse_data.
MetbkParseLine ==
    /\ mb_pc = "run"
    /\ LET line == metbk_sub(mb_raw[mb_line], 1)
           r == dcl_to_epoch(MetbkStamps[line[1]])
       IN  IF ~metbk_match(line)
           THEN UNCHANGED <<mb_data, mb_exc>> /\ mb_line' = mb_line + 1
                /\ mb_pc' = IF mb_line = Len(mb_raw) THEN "done" ELSE "run"
           ELSE IF r.raised # "none"
           THEN /\ mb_pc' = "raised"
                /\ mb_exc' = r.raised
                /\ UNCHANGED <<mb_data, mb_line>>
           ELSE /\ mb_data' = metbk_build_parsed_values(mb_data, line, r.epts)
                /\ mb_line' = mb_line + 1
                /\ mb_pc' = IF mb_line = Len(mb_raw) THEN "done" ELSE "run"
                /\ UNCHANGED mb_exc
    /\ UNCHANGED <<mb_raw, notMetbk>>

-----------------------------------------------------------------------------
(* Specifications *)

\* dcl_to_epoch on its own.
InitDcl == DclInit /\ AdcpIdle /\ CkIdle /\ Vel3dIdle /\ OptaaIdle /\ MopakIdle
    /\ FnIdle /\ PnIdle
    /\ VelptIdle /\ MetbkIdle
NextDcl == DclCall
SpecDcl == InitDcl /\ [][NextDcl]_vars

\* The ADCP decoder on a file.
InitAdcp == AdcpInit /\ DclIdle /\ CkIdle /\ Vel3dIdle /\ OptaaIdle /\ MopakIdle
    /\ FnIdle /\ PnIdle
    /\ VelptIdle /\ MetbkIdle
NextAdcp == AdcpParseLine
SpecAdcp == InitAdcp /\ [][NextAdcp]_vars

\* The Nortek checksum on its own.
InitCk == CkInit /\ DclIdle /\ AdcpIdle /\ Vel3dIdle /\ OptaaIdle /\ MopakIdle
    /\ FnIdle /\ PnIdle
    /\ VelptIdle /\ MetbkIdle
NextCk == CkVerify \/ CkMutate
SpecCk == InitCk /\ [][NextCk]_vars

\* The VEL3D decoder's parse_velocity on a file.
InitVel3d == Vel3dInit /\ DclIdle /\ AdcpIdle /\ CkIdle /\ OptaaIdle /\ MopakIdle
    /\ FnIdle /\ PnIdle
    /\ VelptIdle /\ MetbkIdle
NextVel3d == Vel3dScan \/ Vel3dSystem \/ Vel3dVelocity
SpecVel3d == InitVel3d /\ [][NextVel3d]_vars
\* parse_velocity followed to its end: the interpreter runs on, a step that
\* can be taken is taken.
InitVel3dLoops == Vel3dLoopsInit /\ DclIdle /\ AdcpIdle /\ CkIdle /\ OptaaIdle
    /\ MopakIdle /\ FnIdle /\ PnIdle
    /\ VelptIdle /\ MetbkIdle
FairSpecVel3d == InitVel3dLoops /\ [][NextVel3d]_vars /\ WF_vars(NextVel3d)

\* The OPTAA decoder's parse_data on a file.
InitOptaa == OptaaInit /\ DclIdle /\ AdcpIdle /\ CkIdle /\ Vel3dIdle /\ MopakIdle
    /\ FnIdle /\ PnIdle
    /\ VelptIdle /\ MetbkIdle
NextOptaa == OptaaFirstPacket \/ OptaaPacketStep
SpecOptaa == InitOptaa /\ [][NextOptaa]_vars

\* The MOPAK decoder's parse_data on a file.
InitMopak == MopakInit /\ DclIdle /\ AdcpIdle /\ CkIdle /\ Vel3dIdle /\ OptaaIdle
    /\ FnIdle /\ PnIdle
    /\ VelptIdle /\ MetbkIdle
NextMopak == MopakScan \/ MopakPacketStep
SpecMopak == InitMopak /\ [][NextMopak]_vars

\* _convert_bcd, the Nortek clock and the frame scanners on their own.
InitFn == FnInit /\ DclIdle /\ AdcpIdle /\ CkIdle /\ Vel3dIdle /\ OptaaIdle
    /\ MopakIdle /\ PnIdle
    /\ VelptIdle /\ MetbkIdle
NextFn == FnConvertBcd \/ FnNortekDate \/ FnMopakScan \/ FnVelocityScan
SpecFn == InitFn /\ [][NextFn]_vars

\* The parser modules of one process.
InitPn == PnInit /\ DclIdle /\ AdcpIdle /\ CkIdle /\ Vel3dIdle /\ OptaaIdle
    /\ MopakIdle /\ FnIdle
    /\ VelptIdle /\ MetbkIdle
NextPn == PnImport \/ PnNewParser \/ PnParseRecord
SpecPn == InitPn /\ [][NextPn]_vars

\* The VELPT decoder's parse_diagnostics on a file.
InitVelpt == VelptInit /\ DclIdle /\ AdcpIdle /\ CkIdle /\ Vel3dIdle /\ OptaaIdle
    /\ MopakIdle /\ FnIdle /\ PnIdle /\ MetbkIdle
NextVelpt == VelptScan \/ VelptHeader \/ VelptDiagnostics
SpecVelpt == InitVelpt /\ [][NextVelpt]_vars

\* The METBK decoder's parse_data on a file.
InitMetbk == MetbkInit /\ DclIdle /\ AdcpIdle /\ CkIdle /\ Vel3dIdle /\ OptaaIdle
    /\ MopakIdle /\ FnIdle /\ PnIdle /\ VelptIdle
NextMetbk == MetbkParseLine
SpecMetbk == InitMetbk /\ [][NextMetbk]_vars
-----------------------------------------------------------------------------
(* Properties of the ADCP decoder *)

\* The line parse_data handles in the current pass, when there is one.
AdcpAtLine == adcp_pc = "run" /\ adcp_line <= Len(adcp_raw)
AdcpCurrent == adcp_raw[adcp_line]

AdcpDeclaredLength(line) == UnpackLE16(Slice(line.hex, 2, 4))

\* The line is an ensemble whose declared bytes and checksum word are all
\* there, and the checksum word is not the sum of the declared bytes.
AdcpChecksumMismatch(line) ==
    /\ REGEX_match(line)
    /\ AdcpDeclaredLength(line) + 2 <= Len(line.hex)
    /\ SumBytes(Slice(line.hex, 0, AdcpDeclaredLength(line))) % 65536
         # AdcpStored(line.hex, AdcpDeclaredLength(line))

\* The line is an ensemble whose declared length, offset table or one of
\* whose offsets reaches past the bytes on the line.
AdcpTruncated(line) ==
    /\ REGEX_match(line)
    /\ \/ AdcpDeclaredLength(line) + 2 > Len(line.hex)
       \/ ~OffsetsComplete(line.hex, At(line.hex, 5))
       \/ \E k \in 1..At(line.hex, 5) :
             ReadOffsets(line.hex, At(line.hex, 5))[k] + 2 > Len(line.hex)

\* The pass leaves the tables as they are and goes on to the next line.
AdcpLineSkipped ==
    /\ adcp_pc' # "raised"
    /\ adcp_line' = adcp_line + 1
    /\ adcp_data' = adcp_data

\* C1: an ensemble whose computed checksum differs from the embedded one is
\* skipped without aborting: the rows appended so far are kept, none is
\* added, and parse_data goes on to the later lines.
C1_ChecksumMismatchSkipped ==
    [][(AdcpAtLine /\ AdcpChecksumMismatch(AdcpCurrent)) => AdcpLineSkipped]_vars

\* Every column of every table has as many rows as the time column.
AdcpAligned(d) ==
    LET n == Len(d.time)
    IN  /\ \A c \in DOMAIN d.header : Len(d.header[c]) = n
        /\ \A c \in DOMAIN d.fixed : Len(d.fixed[c]) = n
        /\ \A c \in DOMAIN d.variable : Len(d.variable[c]) = n
        /\ \A c \in DOMAIN d.velocity : Len(d.velocity[c]) = n
        /\ \A c \in DOMAIN d.correlation : Len(d.correlation[c]) = n
        /\ \A c \in DOMAIN d.echo : Len(d.echo[c]) = n
        /\ \A c \in DOMAIN d.percent : Len(d.percent[c]) = n

\* The ensembles of the file: its lines that REGEX matches.
AdcpEnsembles == { i \in 1..Len(adcp_raw) : REGEX_match(adcp_raw[i]) }

\* C2: after parse_data on a file all of whose ensembles pass the checksum
\* and hold valid chunk ids (parse_data raised nothing), the time column and
\* every column of the header, fixed, variable, velocity, correlation, echo
\* and percent tables have one row per decoded ensemble, whatever data types
\* the offset tables list.
C2_TablesRowAligned ==
    adcp_pc = "done" =>
        /\ Len(adcp_data.time) = Cardinality(AdcpEnsembles)
        /\ AdcpAligned(adcp_data)

\* The line is an ensemble with a right checksum whose timestamp matches
\* DCL_TIMESTAMP and is no calendar date and time.
AdcpBadTimestamp(line) ==
    /\ REGEX_match(line)
    /\ AdcpDeclaredLength(line) + 2 <= Len(line.hex)
    /\ ~AdcpChecksumMismatch(line)
    /\ line.stamp.second # 60
    /\ ~ValidDatetime(line.stamp)

\* C7: a frame whose DCL timestamp matches the digit pattern and is no valid
\* date and time gets the time not-a-number, its other fields are appended
\* and the decoder goes on to the following frames.
C7_BadTimestampIsNaN ==
    [][(AdcpAtLine /\ AdcpBadTimestamp(AdcpCurrent)) =>
          /\ adcp_pc' # "raised"
          /\ adcp_line' = adcp_line + 1
          /\ Len(adcp_data'.time) = Len(adcp_data.time) + 1
          /\ adcp_data'.time[Len(adcp_data'.time)] = "NaN"
          /\ Len(adcp_data'.header.num_bytes) = Len(adcp_data.header.num_bytes) + 1
      ]_vars

\* C10: an ensemble line whose declared length or whose data type offsets
\* point past the bytes on the line is skipped without aborting, and the
\* later lines are still decoded.
C10_TruncatedSkipped ==
    [][(AdcpAtLine /\ AdcpTruncated(AdcpCurrent)) => AdcpLineSkipped]_vars

-----------------------------------------------------------------------------
(* Properties of dcl_to_epoch *)

\* The civil minute after the minute of ts, at zero seconds, by the carries
\* of the calendar.
NextMinute(ts) ==
    LET lastmin == ts.minute = 59
        lasthour == lastmin /\ ts.hour = 23
        lastday == lasthour /\ ts.day = DaysInMonth(ts.year, ts.month)
        lastmonth == lastday /\ ts.month = 12
    IN  [year |-> IF lastmonth THEN ts.year + 1 ELSE ts.year,
         month |-> IF lastmonth THEN 1 ELSE IF lastday THEN ts.month + 1 ELSE ts.month,
         day |-> IF lastday THEN 1 ELSE IF lasthour THEN ts.day + 1 ELSE ts.day,
         hour |-> IF lasthour THEN 0 ELSE IF lastmin THEN ts.hour + 1 ELSE ts.hour,
         minute |-> IF lastmin THEN 0 ELSE ts.minute + 1,
         second |-> 0,
         msec |-> 0]

\* The timestamp reads 60.000 seconds in a valid date, hour and minute.
SixtySeconds(ts) ==
    /\ ts.second = 60
    /\ ts.msec = 0
    /\ ValidDatetime([ts EXCEPT !.second = 0])

\* C6: dcl_to_epoch of a timestamp whose seconds field is "60.000" returns
\* the epoch seconds of the following minute at zero seconds, for every
\* valid date, hour and minute, also where the minute rolls into the next
\* hour, day, month or year.
C6_SixtySecondsIsNextMinute ==
    (dcl_pc \in {"returned", "raised"} /\ SixtySeconds(time_string)) =>
        /\ dcl_pc = "returned"
        /\ dcl_result.epts = <<timegm(NextMinute(time_string)), 0>>

\* A 60.000 s timestamp in the last minute of a year was converted.
C6_Witness ==
    /\ dcl_pc = "returned"
    /\ SixtySeconds(time_string)
    /\ time_string.month = 12 /\ time_string.day = 31
    /\ time_string.hour = 23 /\ time_string.minute = 59

\* The offsets of ensemble e whose chunk is of data type id.
AdcpOffsetsOf(e, id) ==
    LET offs == ReadOffsets(e, At(e, 5))
    IN  { offs[k] : k \in { j \in 1..Len(offs) :
                              UnpackLE16(Slice(e, offs[j], offs[j] + 2)) = id } }
AdcpOffsetOf(e, id) == CHOOSE at \in AdcpOffsetsOf(e, id) : TRUE
AdcpListsOnce(e, id) == Cardinality(AdcpOffsetsOf(e, id)) = 1

\* The four array tables: their data type, the bytes of a value and the
\* columns of beams 1 to 4.
AdcpArrayTables == {"velocity", "correlation", "echo", "percent"}
AdcpArrayId ==
    [velocity |-> VelocityId, correlation |-> CorrelationId,
     echo |-> EchoId, percent |-> PercentId]
AdcpArrayWidth == [velocity |-> 2, correlation |-> 1, echo |-> 1, percent |-> 1]
AdcpBeamColumns ==
    [velocity |-> <<"eastward", "northward", "vertical", "error">>,
     correlation |-> <<"magnitude_beam1", "magnitude_beam2",
                       "magnitude_beam3", "magnitude_beam4">>,
     echo |-> <<"intensity_beam1", "intensity_beam2",
                "intensity_beam3", "intensity_beam4">>,
     percent |-> <<"good_3beam", "transforms_reject", "bad_beams", "good_4beam">>]

\* The value of beam b in depth cell k of the array chunk at offset at of
\* ensemble e, its values w bytes wide: the chunk is its two id bytes and
\* then, cell after cell, the values of the four beams.
AdcpCellValue(e, at, w, b, k) ==
    LET pos == at + 2 + (k - 1) * 4 * w + (b - 1) * w
    IN  IF w = 2 THEN Signed16(UnpackLE16(Slice(e, pos, pos + 2))) ELSE At(e, pos)

\* C12: when an ensemble is decoded, each per-beam list appended to the
\* velocity, correlation, echo and percent tables has as many entries as the
\* ensemble's fixed leader counts depth cells, entry k holding the value of
\* depth cell k (counted from 1): no depth cell is left out.
C12_EveryDepthCell ==
    [][ (/\ AdcpAtLine
         /\ REGEX_match(AdcpCurrent)
         /\ adcp_pc' # "raised"
         /\ AdcpListsOnce(AdcpCurrent.hex, FixedId))
        => LET e == AdcpCurrent.hex
               cells == At(e, AdcpOffsetOf(e, FixedId) + 9)
           IN  \A t \in AdcpArrayTables :
                 AdcpListsOnce(e, AdcpArrayId[t]) =>
                   \A b \in 1..4 :
                     LET col == adcp_data'[t][AdcpBeamColumns[t][b]]
                         list == col[Len(col)]
                     IN  /\ Len(list) = cells
                         /\ \A k \in 1..cells :
                              list[k] = AdcpCellValue(e, AdcpOffsetOf(e, AdcpArrayId[t]),
                                                      AdcpArrayWidth[t], b, k) ]_vars

\* The pass decodes the current line, an ensemble listing the chunk of data
\* type id once, without raising.
AdcpDecodesOne(id) ==
    /\ AdcpAtLine
    /\ REGEX_match(AdcpCurrent)
    /\ adcp_pc' # "raised"
    /\ AdcpListsOnce(AdcpCurrent.hex, id)

\* The entry the pass appended to column c of table t.
AdcpAppended(t, c) == adcp_data'[t][c][Len(adcp_data'[t][c])]

\* C14: when an ensemble is decoded, the sysconfig_sensor_config appended is
\* bits 4-5 of the fixed leader's system configuration word w, (w AND 0x30)
\* shifted right by 4, and the coord_transform_type appended is bits 3-4 of
\* its coordinate transform byte c, (c AND 0x18) shifted right by 3.
C14_BitFieldsExact ==
    [][ AdcpDecodesOne(FixedId)
        => LET e == AdcpCurrent.hex
               at == AdcpOffsetOf(e, FixedId)
               w == UnpackLE16(Slice(e, at + 4, at + 6))
               c == At(e, at + 25)
           IN  /\ AdcpAppended("fixed", "sysconfig_sensor_config")
                    = ShiftR(BitAnd(w, 48), 4)
               /\ AdcpAppended("fixed", "coord_transform_type")
                    = ShiftR(BitAnd(c, 24), 3) ]_vars

RECURSIVE BitCount(_)
\* The number of bits set in a non-negative integer.
BitCount(n) == IF n = 0 THEN 0 ELSE (n % 2) + BitCount(n \div 2)

\* C15: every status flag of the variable leader is decoded from a bit of
\* its own, so when an ensemble is decoded whose four error status words
\* have a single bit set between them, at most one flag column receives a 1.
C15_FlagsFromOwnBit ==
    [][ (/\ AdcpDecodesOne(VariableId)
         /\ LET e == AdcpCurrent.hex
                at == AdcpOffsetOf(e, VariableId)
            IN  BitCount(At(e, at + 42)) + BitCount(At(e, at + 43))
                  + BitCount(At(e, at + 44)) + BitCount(At(e, at + 45)) = 1)
        => Cardinality({ c \in DOMAIN AdcpStatusFlags :
                           AdcpAppended("variable", c) = 1 }) <= 1 ]_vars

-----------------------------------------------------------------------------
(* Properties of the Nortek checksum *)

\* C5: a packet whose last two bytes hold, low byte first, 46476 plus the
\* sum of its 16-bit little-endian words before them, modulo 65536, passes
\* the decoder's checksum comparison; the same packet with one byte before
\* the checksum changed to another value fails it.
C5_ChecksumRoundTrip ==
    /\ ck_pc = "verified" => ck_ok
    /\ ck_pc = "reverified" => ~ck_ok

\* A six-byte packet whose second byte, the high byte of its first word, was
\* changed to 7, after the comparison was made again.
C5_Witness ==
    /\ ck_pc = "reverified"
    /\ Len(ck_record) = 6
    /\ At(ck_record, 1) = 7
    /\ ~ck_ok

-----------------------------------------------------------------------------
(* Properties of the VEL3D decoder *)

Vel3dVelocityColumns == DOMAIN Vel3dEmpty.velocity

\* The system packet parse_velocity is about to parse.
Vel3dCandidate ==
    Slice(v3_raw, v3_system_marker[1], v3_system_marker[1] + 28)

\* C3: after a scan that came to its end, velocity.time is as long as every
\* other column of the velocity table: a velocity packet that failed its
\* size or checksum test added nothing.
C3_VelocityTimeAligned ==
    v3_pc = "done" =>
        \A c \in Vel3dVelocityColumns :
            Len(v3_data.velocity[c]) = Len(v3_data.velocity.time)

\* C4: a system candidate that fails its size or checksum test is skipped,
\* wherever it is in the file: the tables stay as they are, no exception
\* leaves the scan, and the scan goes on to the next candidate.
C4_BadSystemCandidateSkipped ==
    [][ (v3_pc = "system" /\ ~SystemValid(Vel3dCandidate)) =>
            /\ v3_pc' # "raised"
            /\ v3_data' = v3_data
            /\ v3_system_marker' = Tail(v3_system_marker) ]_vars

\* The offsets of the velocity candidates of the file, and whether the
\* packet at an offset is a system packet that decodes.
Vel3dVelocityMarkers ==
    LET found == VELOCITY_MATCHER(v3_raw)
    IN  { found[i] : i \in 1..Len(found) }
Vel3dSystemDecodes(p) ==
    LET r == build_parsed_system(Vel3dEmpty, Slice(v3_raw, p, p + 28))
    IN  r.ret /\ r.exc = "none"

\* C26: after a scan that came to its end, the rows of the velocity table
\* are the velocity packets that pass their checksum and lie after the
\* first system packet that was decoded, each once and in stream order,
\* also when a system candidate between that system packet and a velocity
\* packet fails its test.
C26_EveryVelocityAfterFirstSystem ==
    v3_pc = "done"
        => LET found == SYSTEM_MATCHER(v3_raw)
               good == { found[i] : i \in 1..Len(found) } \cap
                         { p \in 0..Len(v3_raw) : Vel3dSystemDecodes(p) }
               first == CHOOSE p \in good : \A q \in good : p <= q
               at == FromLeft({ p \in Vel3dVelocityMarkers :
                                  /\ p > first
                                  /\ VelocityValid(Slice(v3_raw, p, p + 24)) }, 1, 0)
           IN  good # { }
                 => v3_data.velocity.ensemble_counter
                      = [i \in 1..Len(at) |-> At(v3_raw, at[i] + 3)]

\* C27: a velocity candidate handled after the system packet decoded at
\* offset start, whose clock reads T, is given the time T + k / sample_rate,
\* k counting the velocity candidates from that system packet up to it
\* (0 for the first); with k > 0 the time appended before it is that of k - 1,
\* so the times of a group increase.
C27_VelocityTimes ==
    [][ (/\ v3_pc = "velocity"
         /\ Len(v3_data'.velocity.time) > Len(v3_data.velocity.time))
        => LET system == Slice(v3_raw, v3_loc.start, v3_loc.start + 28)
               T == timegm(NortekDate(At(system, 4), At(system, 5), At(system, 6),
                                      At(system, 7), At(system, 8), At(system, 9)))
               k == Cardinality({ p \in Vel3dVelocityMarkers :
                                    v3_loc.start <= p /\ p < v3_velocity_marker[1] })
               times == v3_data'.velocity.time
           IN  /\ Len(times) = Len(v3_data.velocity.time) + 1
               /\ times[Len(times)] = <<T, k>>
               /\ k > 0 => times[Len(times) - 1] = <<T, k - 1>> ]_vars

\* A system packet and two velocity packets after it were decoded: times
\* T and T + 1 / sample_rate.
C27_Witness ==
    /\ v3_pc = "done"
    /\ Len(v3_data.system.time) = 1
    /\ v3_data.velocity.time
         = << <<v3_data.system.time[1], 0>>, <<v3_data.system.time[1], 1>> >>

\* What is left of the two loops: the markers still listed, a system
\* marker counting twice, and one more while its pass has not begun.
Vel3dToDo ==
    2 * Len(v3_system_marker) + Len(v3_velocity_marker)
        + (IF v3_pc = "system" THEN 1 ELSE 0)

\* C28: parse_velocity comes to an end: every pass of its loops that does
\* not raise removes a marker or leaves the inner loop, the lists of
\* markers only ever lose their first entry, and the scan ends, done or
\* with an exception.
C28_Terminates ==
    /\ [][ (v3_pc \in {"system", "velocity"} /\ v3_pc' # "raised")
            => /\ Vel3dToDo' < Vel3dToDo
               /\ v3_system_marker' \in {v3_system_marker, Tail(v3_system_marker)}
               /\ v3_velocity_marker' = v3_velocity_marker
                    \/ (v3_velocity_marker # << >>
                         /\ v3_velocity_marker' = Tail(v3_velocity_marker)) ]_vars
    /\ <>(v3_pc \in {"done", "raised"})

\* A scan of two system markers and a velocity marker came to its end.
C28_Witness ==
    /\ v3_pc = "done"
    /\ Len(SYSTEM_MATCHER(v3_raw)) = 2
    /\ Len(VELOCITY_MATCHER(v3_raw)) = 1
    /\ v3_system_marker = << >>

-----------------------------------------------------------------------------
(* Properties of the OPTAA decoder *)

\* The milliseconds since power up of the first packet of the file, the
\* packet at the first marker.
OptaaFirstMsec ==
    LET markers == { p \in 0..(Len(op_raw) - 4) : OptaaMarkerAt(op_raw, p) }
        first == CHOOSE p \in markers : \A q \in markers : p <= q
    IN  UnpackBE32(Slice(op_raw, first + 26, first + 30))

\* C8: every record's time is the creation time of the file's name plus
\* the record's milliseconds since power up less those of the first packet
\* of the file, as milliseconds (the wake latency of the OPTAA is zero).
C8_ElapsedTime ==
    \A i \in 1..Len(op_data.time) :
        op_data.time[i] =
            <<op_epts, op_data.time_msec_since_power_up[i] - OptaaFirstMsec>>

\* A file whose first packet reads 1000 ms and whose second reads 1500 ms,
\* decoded to the end: the first record is at T0, the second 0.5 s later.
C8_Witness ==
    /\ op_pc = "done"
    /\ op_data.time_msec_since_power_up = <<1000, 1500>>
    /\ op_data.time = << <<op_epts, 0>>, <<op_epts, 500>> >>

\* The offset of the first marker of the file, and the record length and
\* the number of wavelengths the packet there declares.
OptaaFirstStart ==
    LET markers == { p \in 0..(Len(op_raw) - 4) : OptaaMarkerAt(op_raw, p) }
    IN  CHOOSE p \in markers : \A q \in markers : p <= q
OptaaFirstLength == UnpackBE16(Slice(op_raw, OptaaFirstStart + 4, OptaaFirstStart + 6))
OptaaFirstNwave == At(op_raw, OptaaFirstStart + 31)

\* C11: a first packet whose declared record length is not exactly
\* 32 + 8 * nwave, nwave its number-of-wavelengths byte, is reported as a
\* mismatch of length and wavelengths, and no record is decoded.
C11_RecordLengthExact ==
    [][ (/\ op_pc = "first"
         /\ regex0_search(op_raw) # -1
         /\ OptaaFirstLength # 32 + 8 * OptaaFirstNwave)
        => (op_pc' = "raised" /\ op_exc' = "Exception" /\ op_data' = op_data) ]_vars

\* C13: in every record the four optical arrays are as long as the record's
\* number_of_wavelengths says, the count its own packet carries, for the
\* first packet of the file and for the later ones.
C13_ArraysMatchOwnWavelengths ==
    \A i \in 1..Len(op_data.number_of_wavelengths) :
        /\ Len(op_data.cref_raw_counts[i]) = op_data.number_of_wavelengths[i]
        /\ Len(op_data.aref_raw_counts[i]) = op_data.number_of_wavelengths[i]
        /\ Len(op_data.csig_raw_counts[i]) = op_data.number_of_wavelengths[i]
        /\ Len(op_data.asig_raw_counts[i]) = op_data.number_of_wavelengths[i]

\* The candidate the coming pass of the loop handles: the bytes regex_pp
\* matched, 35 and the body of the wavelengths of the first packet.
OptaaCandidate ==
    Slice(op_raw, op_packets[1], op_packets[1] + 35 + 8 * op_loc.nwave)

\* The big-endian 16-bit word at word index n of the body of a packet, the
\* bytes from offset 32 on.
OptaaBodyWord(packet, n) == UnpackBE16(Slice(packet, 32 + 2 * n, 34 + 2 * n))

RECURSIVE OptaaWholePackets(_, _, _)
\* The number of packets a stream is made of from offset at on, when it is
\* nothing but complete packets of nwave wavelengths, each with the record
\* length 32 + 8 * nwave and a right checksum; -1 when it is not.
OptaaWholePackets(raw, at, nwave) ==
    LET total == 35 + 8 * nwave
        packet == Slice(raw, at, at + total)
        rest == OptaaWholePackets(raw, at + total, nwave)
    IN  IF at = Len(raw) THEN 0
        ELSE IF /\ at + total <= Len(raw)
                /\ OptaaMarkerAt(raw, at)
                /\ UnpackBE16(Slice(packet, 4, 6)) = 32 + 8 * nwave
                /\ At(packet, 31) = nwave
                /\ SumBytes(Slice(packet, 0, total - 3)) % 65536
                     = UnpackBE16(Slice(packet, total - 3, total - 1))
                /\ rest # -1
             THEN 1 + rest
             ELSE -1

\* C30: a file that holds exactly N >= 1 complete packets with right
\* checksums and one record length is decoded without an exception into
\* exactly N records, a file of a single packet into one.
C30_AllPacketsOfAFile ==
    LET N == IF Len(op_raw) >= 32 THEN OptaaWholePackets(op_raw, 0, At(op_raw, 31))
             ELSE -1
    IN  (op_pc \in {"done", "raised"} /\ N >= 1)
            => (op_pc = "done" /\ Len(op_data.time) = N)

-----------------------------------------------------------------------------
(* Properties of the MOPAK decoder *)

\* The creation time of the file's name, before and after the wake time
\* was added to it.
MopakT0 == mo_epts[1]

\* C9: the first frame's timer is the zero reference: every record's time
\* is the creation time plus the wake time of 0.253 s plus the ticks of the
\* record's timer less those of the first record's, so the first record's
\* time is the creation time plus 0.253 s.
C9_FirstTimerIsZeroReference ==
    \A i \in 1..Len(mo_data.time) :
        mo_data.time[i] = <<MopakT0, twake, mo_data.timer[i] - mo_data.timer[1]>>

\* The candidate the coming pass of the loop handles, and whether the
\* checksum it carries is the sum of its first 41 bytes.
MopakCandidate == Slice(mo_raw, mo_record_marker[1], mo_record_marker[1] + 43)
MopakChecksumPasses(packet) ==
    256 * At(packet, 41) + At(packet, 42) = SumBytes(Slice(packet, 0, 41)) % 65536

\* C21: the MOPAK table is append-only with one entry per decoded frame: a
\* pass of the loop on a candidate whose checksum fails leaves every column
\* as it is, a pass on a candidate whose checksum passes adds one entry at
\* the end of each of the 11 columns, and the entries appended before stay
\* as they are.
C21_AppendOnly ==
    [][ mo_pc = "packets"
        => IF MopakChecksumPasses(MopakCandidate)
           THEN /\ Cardinality(DOMAIN mo_data') = 11
                /\ \A c \in DOMAIN mo_data' :
                     /\ Len(mo_data'[c]) = Len(mo_data[c]) + 1
                     /\ SubSeq(mo_data'[c], 1, Len(mo_data[c])) = mo_data[c]
           ELSE mo_data' = mo_data ]_vars

\* A file of three candidates was decoded to the end: one failed its
\* checksum and two records were appended.
C21_Witness ==
    /\ mo_pc = "done"
    /\ Len(MopakFinditer(mo_raw)) = 3
    /\ Len(mo_data.time) = 2

\* The offsets of the stream at which a packet stands: 0xCB, 43 bytes and
\* a checksum that is right.
MopakPacketsOf(raw) ==
    { p \in 0..(Len(raw) - 43) :
        At(raw, p) = 203 /\ MopakChecksumPasses(Slice(raw, p, p + 43)) }

\* C25: when the file is decoded, every packet of the stream that starts
\* with 0xCB, is 43 bytes long and carries a right checksum has its one
\* record: the timers of the records are the timers of those packets in
\* stream order, also when noise before a packet holds a 0xCB.
C25_EveryValidPacketDecoded ==
    mo_pc = "done"
        => LET at == FromLeft(MopakPacketsOf(mo_raw), 1, 0)
           IN  mo_data.timer
                 = [i \in 1..Len(at) |-> UnpackBE32(Slice(mo_raw, at[i] + 37, at[i] + 41))]

\* The columns of the nine floats in packet order.
MopakFloatColumns ==
    <<"acceleration_x", "acceleration_y", "acceleration_z",
      "angular_rate_x", "angular_rate_y", "angular_rate_z",
      "magnetometer_x", "magnetometer_y", "magnetometer_z">>

\* C29: a record holds the nine floats of its packet under their own names
\* in packet order: the entry a pass appends to the k-th float column is
\* the k-th float of the candidate, magnetometer_y the eighth.
C29_FloatsUnderOwnNames ==
    [][ (mo_pc = "packets" /\ Len(mo_data'.time) > Len(mo_data.time))
        => \A k \in 1..9 :
             LET col == mo_data'[MopakFloatColumns[k]]
             IN  col[Len(col)] = Slice(MopakCandidate, 1 + 4 * (k - 1), 1 + 4 * k) ]_vars


-----------------------------------------------------------------------------
(* Properties of _convert_bcd, the Nortek clock and the frame scanners *)

FnReturned(name) == fn_name = name /\ fn_pc = "returned"

\* C16: for every byte whose two nibbles are decimal digits, _convert_bcd
\* returns ten times the high nibble plus the low nibble, and encoding that
\* number as BCD (tens in the high nibble, units in the low) gives the byte
\* back.
C16_BcdRoundTrip ==
    (FnReturned("convert_bcd") /\ fn_arg \div 16 <= 9 /\ fn_arg % 16 <= 9)
        => /\ fn_result = 10 * (fn_arg \div 16) + (fn_arg % 16)
           /\ 16 * (fn_result \div 10) + (fn_result % 10) = fn_arg

\* The byte 0x59 was converted to 59.
C16_Witness == FnReturned("convert_bcd") /\ fn_arg = 89 /\ fn_result = 59

\* C17: _convert_bcd maps every byte above 0x99 to 99, and its result for
\* any byte lies in 0..99.
C17_BcdClamp ==
    FnReturned("convert_bcd")
        => /\ fn_result \in 0..99
           /\ fn_arg > 153 => fn_result = 99

\* The byte 0x9F was converted to 99.
C17_Witness == FnReturned("convert_bcd") /\ fn_arg = 159 /\ fn_result = 99

\* C18: the year decoded from the clock bytes of a Nortek packet is 1900
\* plus the two-digit year y when y >= 90 and 2000 plus y when y < 90, y
\* being what _convert_bcd makes of the year byte (for a byte of two
\* decimal digits, the number they write): 95 gives 1995, 05 gives 2005,
\* 90 gives 1990 and 89 gives 2089.
C18_CenturyPivot ==
    FnReturned("NortekDate")
        => LET byte == fn_arg[5]
               y == convert_bcd(byte)
               pivot(n) == IF n >= 90 THEN 1900 + n ELSE 2000 + n
           IN  /\ fn_result.year = pivot(y)
               /\ (byte \div 16 <= 9 /\ byte % 16 <= 9)
                    => fn_result.year = pivot(10 * (byte \div 16) + (byte % 16))
               /\ byte = 149 => fn_result.year = 1995
               /\ byte = 5 => fn_result.year = 2005
               /\ byte = 144 => fn_result.year = 1990
               /\ byte = 137 => fn_result.year = 2089

\* The year byte 0x95 was decoded to 1995.
C18_Witness == FnReturned("NortekDate") /\ fn_arg[5] = 149 /\ fn_result.year = 1995

RECURSIVE FrameStarts(_, _)
\* The offsets at which the frames of a buffer start, the buffer starting
\* at offset at.
FrameStarts(buf, at) ==
    IF buf = << >> THEN << >>
    ELSE (IF Head(buf).kind = "frame" THEN <<at>> ELSE << >>)
            \o FrameStarts(Tail(buf), at + Len(Head(buf).bytes))

FnScanned == FnReturned("MopakFinditer") \/ FnReturned("VELOCITY_MATCHER")

\* C19: for a buffer of N whole frames that do not overlap, with noise
\* between them that does not contain the marker, the MOPAK scanner and
\* the VEL3D velocity scanner list exactly the N offsets at which the
\* frames start, in increasing order, also when the payload of a frame
\* contains the marker.
C19_ScanFindsEveryFrame == FnScanned => fn_result = FrameStarts(fn_arg, 0)

\* A velocity buffer of a frame made of markers, noise and a further frame
\* was scanned and two offsets were listed.
C19_Witness ==
    /\ FnReturned("VELOCITY_MATCHER")
    /\ Len(fn_arg) = 3
    /\ fn_arg[1].bytes = [i \in 1..24 |-> IF i % 2 = 1 THEN 165 ELSE 16]
    /\ fn_arg[2].kind = "noise"
    /\ fn_arg[3].kind = "frame"
    /\ Len(fn_result) = 2

-----------------------------------------------------------------------------
(* Properties of the ParameterNames tables *)

\* C20: no mutable state is shared between decoders: the columns of every
\* Parser's table are 'time' and the names its own module declares,
\* whichever modules were imported and whichever Parsers were made before
\* it, and no list belongs to the tables of two Parsers.
C20_NoSharedState ==
    /\ \A i \in 1..Len(pn_parsers) :
          DOMAIN pn_parsers[i].data
            = {"time"} \cup { PnDeclared[pn_parsers[i].module][k] : k \in 1..2 }
    /\ \A i, j \in 1..Len(pn_parsers) :
          i # j => { pn_parsers[i].data[c] : c \in DOMAIN pn_parsers[i].data }
                     \cap { pn_parsers[j].data[c] : c \in DOMAIN pn_parsers[j].data }
                   = { }

-----------------------------------------------------------------------------
(* Properties of the VELPT decoder *)

VelptHeaderDecodes(p) ==
    velpt_build_parsed_header(VelptEmpty, Slice(vp_raw, p, p + 36)) # VelptEmpty
VelptDiagnosticsDecodes(p) == parse_aquadopp_packet(Slice(vp_raw, p, p + 42)).ok

\* C24: after a scan of parse_diagnostics that came to its end, every column
\* of the header table has one row for each header packet that passed its
\* tests, and the time of such a row is the time of the first diagnostics
\* packet decoded between that header's marker and the next header marker.
C24_HeaderTimePerHeader ==
    vp_pc = "done"
        => LET found == HEADER_MATCHER(vp_raw)
               markers == { found[i] : i \in 1..Len(found) }
               heads == FromLeft({ p \in markers : VelptHeaderDecodes(p) }, 1, 0)
               dfound == DIAGNOSTICS_MATCHER(vp_raw)
               next(p) == IF \E q \in markers : q > p
                          THEN CHOOSE q \in markers :
                                 q > p /\ \A r \in markers : r > p => q <= r
                          ELSE Len(vp_raw)
               diags(p) == { d \in { dfound[i] : i \in 1..Len(dfound) } :
                               p < d /\ d < next(p) /\ VelptDiagnosticsDecodes(d) }
               first(p) == CHOOSE d \in diags(p) : \A e \in diags(p) : d <= e
           IN  /\ \A c \in DOMAIN vp_data.header :
                    Len(vp_data.header[c]) = Len(heads)
               /\ \A i \in 1..Len(heads) :
                    /\ diags(heads[i]) # { }
                    /\ vp_data.header.time[i]
                         = parse_aquadopp_packet(
                             Slice(vp_raw, first(heads[i]), first(heads[i]) + 42)).row.time

-----------------------------------------------------------------------------
(* Properties of the METBK decoder *)

\* A line of a timestamp and twelve values of which some are given as
\* missing.
MetbkMissing == {"NaN", "Na", "N"}
MetbkLineWithMissing(line) ==
    /\ Len(line) = 26
    /\ line[1] \in DOMAIN MetbkStamps
    /\ \A k \in 1..12 :
         /\ line[2 * k] = " "
         /\ line[2 * k + 1] \in DOMAIN MetbkNumbers \cup MetbkMissing
    /\ \E k \in 1..12 : line[2 * k + 1] \in MetbkMissing

\* C22: a pass of parse_data over a line with missing values ('NaN', 'Na'
\* or 'N') appends exactly one record at the end of the table: its time is
\* that of the line's timestamp, a missing field is NaN and every other
\* field is the number on the line.
C22_MissingValuesAsNaN ==
    [][ (mb_pc = "run" /\ MetbkLineWithMissing(mb_raw[mb_line]))
        => LET line == mb_raw[mb_line]
               value(text) == IF text \in MetbkMissing
                              THEN [nan |-> TRUE, value |-> 0]
                              ELSE [nan |-> FALSE, value |-> MetbkNumbers[text]]
           IN  /\ mb_data'.time
                    = Append(mb_data.time, dcl_to_epoch(MetbkStamps[line[1]]).epts)
               /\ mb_data'.dcl_date_time_string
                    = Append(mb_data.dcl_date_time_string, line[1])
               /\ \A k \in 1..10 :
                    mb_data'[MetbkColumns[k]]
                      = Append(mb_data[MetbkColumns[k]], value(line[2 * k + 1])) ]_vars

====
